---- MODULE Spec2Model ----
(***************************************************************************)
(* looptrace-regionals-vis: bounding boxes, their expansion into z-slices, *)
(* the classification of the files of a folder, and the reader that builds *)
(* one napari shapes layer per kind of region of interest (ROI).           *)
(*                                                                         *)
(* Floating-point coordinates are fixed-point numbers: the integer k       *)
(* stands for the float k / Scale.                                         *)
(***************************************************************************)
EXTENDS Integers, Sequences, FiniteSets, TLC

VARIABLES
    pcBox,      \* "new" | "built" | "failed" | "iterated" | "raised"
    arguments,  \* the arguments of the constructor call (from_flat_arguments)
    box,        \* the BoundingBox3D under construction / constructed
    slices,     \* list(box.iter_z_slices_nonnegative())
    dir,        \* the entries of the folder given to get_reader / the reader
    tables,     \* the rows of the data file of each content type
    settings,   \* the environment variables read by settings.py
    reader,     \* what get_reader returned: "unprobed" | "null" | "reader"
    result,     \* what the last reader call on the folder returned or raised
    filename,   \* a file name given to the two from_filename classifiers
    inferred,   \* what the classifiers returned for it
    record,     \* a row of a data file, with the content type of the file
    parsedRoi   \* the ROI the row was parsed into, or the error raised

boxVars == <<pcBox, arguments, box, slices>>
folderVars == <<dir, tables, settings, reader, result>>
nameVars == <<filename, inferred>>
parseVars == <<record, parsedRoi>>
vars == <<pcBox, arguments, box, slices, dir, tables, settings, reader, result,
          filename, inferred, record, parsedRoi>>

----------------------------------------------------------------------------
(* Bounds of the model *)

Scale == 2          \* coordinates are multiples of 1/Scale
MaxZ == 5           \* z coordinates range over -MaxZ/Scale .. MaxZ/Scale
MaxYX == 1          \* y and x coordinates range over 0 .. MaxYX/Scale

ZVals == (0 - MaxZ)..MaxZ
YXVals == 0..MaxYX

Max(a, b) == IF a >= b THEN a ELSE b
Min(a, b) == IF a <= b THEN a ELSE b

----------------------------------------------------------------------------
(* point.py, bounding_box.py *)

\* math.floor of the float k / Scale
Floor(k) == k \div Scale

\* float(z) of the integer z
ToFloat(z) == z * Scale

\* Python's round() of the float k / Scale: to nearest, ties to even
Round(k) ==
    LET f == k \div Scale
        r == k % Scale
    IN  IF 2 * r < Scale THEN f
        ELSE IF 2 * r > Scale THEN f + 1
        ELSE IF f % 2 = 0 THEN f ELSE f + 1

\* float("inf"), float("-inf") and float("nan"): values beyond every
\* coordinate of the model; the infinities compare as the largest and the
\* smallest float
PosInf == 1000 * (MaxZ + MaxYX)
NegInf == 0 - PosInf
NaN == PosInf + 1

\* math.isnan, math.isinf
IsNan(v) == v = NaN
IsInf(v) == v \in {PosInf, NegInf}

\* a > b and a < b of two floats: every comparison with a NaN is False
FloatGt(a, b) == ~IsNan(a) /\ ~IsNan(b) /\ a > b
FloatLt(a, b) == ~IsNan(a) /\ ~IsNan(b) /\ a < b

Point3D(z, y, x) == [z |-> z, y |-> y, x |-> x]

\* an argument of Point3D as Python sees it: its type and, for a float, its value
Typed(t, v) == [type |-> t, value |-> v]
Float(v) == Typed("float", v)

\* _is_float_like(t): issubclass(t, float | np.float64)
IsFloatLike(t) == t \in {"float", "numpy.float64"}

TypeMessage == "Value of each field of point must be floating-point; got {value_types}"
NullMessage == "Cannot use a null numeric as a point coordinate!"
InfiniteMessage == "Cannot use an infinite value as a point coordinate!"

Point3DInfiniteFirst(z, y, x) ==
    LET fields == <<z, y, x>>
    IN  IF ~ \A i \in 1..3 : IsFloatLike(fields[i].type)
        THEN [error |-> "TypeError", message |-> TypeMessage]
        ELSE IF \E i \in 1..3 : IsInf(fields[i].value)
        THEN [error |-> "ValueError", message |-> InfiniteMessage]
        ELSE IF \E i \in 1..3 : IsNan(fields[i].value)
        THEN [error |-> "ValueError", message |-> NullMessage]
        ELSE Point3D(z.value, y.value, x.value)

\* Point3D(z=z, y=y, x=x) with its __post_init__: the point, or the error raised
Point3DPostInit(z, y, x) ==
    LET fields == <<z, y, x>>
    IN  IF ~ \A i \in 1..3 : IsFloatLike(fields[i].type)
        THEN [error |-> "TypeError", message |-> TypeMessage]
        ELSE IF \E i \in 1..3 : IsNan(fields[i].value)
        THEN [error |-> "ValueError", message |-> NullMessage]
        ELSE IF \E i \in 1..3 : IsInf(fields[i].value)
        THEN [error |-> "ValueError", message |-> InfiniteMessage]
        ELSE Point3D(z.value, y.value, x.value)

OrderingMessage == "For each dimension, min must be no more than max!"
CenterMessage == "For each dimension, center coordinate must be within min/max bounds!"

\* first check of BoundingBox3D.__post_init__
BoundsInverted(a) ==
    \/ FloatGt(a.x_min, a.x_max)
    \/ FloatGt(a.y_min, a.y_max)
    \/ FloatGt(a.z_min, a.z_max)

\* second check of BoundingBox3D.__post_init__
CenterOutside(a) ==
    \/ FloatLt(a.center.z, a.z_min) \/ FloatGt(a.center.z, a.z_max)
    \/ FloatLt(a.center.y, a.y_min) \/ FloatGt(a.center.y, a.y_max)
    \/ FloatLt(a.center.x, a.x_min) \/ FloatGt(a.center.x, a.x_max)

NearestZFloor(a) == Floor(a.center.z)

\* the cached _nearest_z_slice
NearestZSlice(a) == Round(a.center.z)

BoundingBox3DCenterFirst(a) ==
    IF CenterOutside(a) THEN [error |-> "ValueError", message |-> CenterMessage]
    ELSE IF BoundsInverted(a) THEN [error |-> "ValueError", message |-> OrderingMessage]
    ELSE [center |-> a.center,
          z_min |-> a.z_min, z_max |-> a.z_max,
          y_min |-> a.y_min, y_max |-> a.y_max,
          x_min |-> a.x_min, x_max |-> a.x_max,
          nearest_z_slice |-> NearestZSlice(a)]

\* BoundingBox3D(center=..., z_min=..., ...): the box, or the error raised
BoundingBox3D(a) ==
    IF BoundsInverted(a) THEN [error |-> "ValueError", message |-> OrderingMessage]
    ELSE IF CenterOutside(a) THEN [error |-> "ValueError", message |-> CenterMessage]
    ELSE [center |-> a.center,
          z_min |-> a.z_min, z_max |-> a.z_max,
          y_min |-> a.y_min, y_max |-> a.y_max,
          x_min |-> a.x_min, x_max |-> a.x_max,
          nearest_z_slice |-> NearestZSlice(a)]

IsBox(b) == "center" \in DOMAIN b

\* BoundingBox3D.from_flat_arguments(zc=..., ..., x_max=...): the center point is
\* built first, then the box
FromFlatArguments(a) ==
    LET point == Point3DPostInit(a.zc, a.yc, a.xc)
    IN  IF "error" \in DOMAIN point THEN point
        ELSE BoundingBox3D([center |-> point,
                            z_min |-> a.z_min, z_max |-> a.z_max,
                            y_min |-> a.y_min, y_max |-> a.y_max,
                            x_min |-> a.x_min, x_max |-> a.x_max])

RangeStartUnclamped(b) == Floor(b.z_min)

\* first argument of range(): max(0, floor(self.z_min))
RangeStart(b) == Max(0, Floor(b.z_min))

RangeStopNoPlusOne(b) == Max(0, Floor(b.z_max))

RangeStopClampFirst(b) == Max(0, Floor(b.z_max)) + 1

\* second argument of range(): max(0, floor(self.z_max) + 1)
RangeStop(b) == Max(0, Floor(b.z_max) + 1)

\* the tuple yielded for the integer z
ZSlice(b, z) ==
    [q1 |-> Point3D(ToFloat(z), b.y_min, b.x_max),
     q2 |-> Point3D(ToFloat(z), b.y_min, b.x_min),
     q3 |-> Point3D(ToFloat(z), b.y_max, b.x_min),
     q4 |-> Point3D(ToFloat(z), b.y_max, b.x_max),
     is_center |-> (z = b.nearest_z_slice)]

\* list(b.iter_z_slices_nonnegative())
IterZSlicesNonnegative(b) ==
    [i \in 1..(RangeStop(b) - RangeStart(b)) |-> ZSlice(b, RangeStart(b) + i - 1)]

\* math.floor of a float that is not finite raises
FloorRaises(k) == IsNan(k) \/ IsInf(k)
FloorError(k) ==
    IF IsNan(k)
    THEN [error |-> "ValueError", message |-> "cannot convert float NaN to integer"]
    ELSE [error |-> "OverflowError", message |-> "cannot convert float infinity to integer"]

\* the first error among the four corner points of a slice, or the slice
CornersOrError(b, z) ==
    LET q1 == Point3DPostInit(Float(ToFloat(z)), Float(b.y_min), Float(b.x_max))
        q2 == Point3DPostInit(Float(ToFloat(z)), Float(b.y_min), Float(b.x_min))
        q3 == Point3DPostInit(Float(ToFloat(z)), Float(b.y_max), Float(b.x_min))
        q4 == Point3DPostInit(Float(ToFloat(z)), Float(b.y_max), Float(b.x_max))
    IN  IF "error" \in DOMAIN q1 THEN q1
        ELSE IF "error" \in DOMAIN q2 THEN q2
        ELSE IF "error" \in DOMAIN q3 THEN q3
        ELSE IF "error" \in DOMAIN q4 THEN q4
        ELSE ZSlice(b, z)

\* whether list(b.iter_z_slices_nonnegative()) raises
IterationRaises(b) ==
    \/ FloorRaises(b.z_min)
    \/ FloorRaises(b.z_max)
    \/ /\ RangeStart(b) < RangeStop(b)
       /\ "error" \in DOMAIN CornersOrError(b, RangeStart(b))

\* the error it raises: of the first floor, else of the second, else of a corner
IterationError(b) ==
    IF FloorRaises(b.z_min) THEN FloorError(b.z_min)
    ELSE IF FloorRaises(b.z_max) THEN FloorError(b.z_max)
    ELSE CornersOrError(b, RangeStart(b))

----------------------------------------------------------------------------
(* Boxes: construct one from arbitrary arguments, then expand it *)

NoBox == [error |-> "none", message |-> ""]

NoArguments == [zc |-> "none"]

BoxArguments ==
    [center : [z : ZVals, y : YXVals, x : YXVals],
     z_min : ZVals, z_max : ZVals,
     y_min : YXVals, y_max : YXVals,
     x_min : YXVals, x_max : YXVals]

Construct ==
    /\ pcBox = "new"
    /\ \E a \in BoxArguments :
          /\ box' = BoundingBox3D(a)
          /\ pcBox' = IF IsBox(BoundingBox3D(a)) THEN "built" ELSE "failed"
    /\ UNCHANGED <<slices, arguments, folderVars, nameVars, parseVars>>

\* the arguments of from_flat_arguments over which the constructor is observed:
\* a center on the grid or with a coordinate that is not a finite float,
\* bounds on the grid or not finite
SpecialCoordinates ==
    {Float(0), Float(NaN), Float(PosInf), Float(NegInf),
     Typed("int", ToFloat(1)), Typed("numpy.float64", 0)}

GridCenters ==
    [zc : {Float(z) : z \in ZVals}, yc : {Float(y) : y \in YXVals}, xc : {Float(0)}]

SpecialCenters ==
    [zc : SpecialCoordinates, yc : SpecialCoordinates, xc : SpecialCoordinates]

BoundArguments ==
    [z_min : ZVals \cup {NaN, NegInf}, z_max : ZVals \cup {NaN, PosInf},
     y_min : YXVals \cup {NaN}, y_max : YXVals,
     x_min : YXVals, x_max : {0, NaN}]

\* an unusual center is tried with every pair of z bounds, in one y/x rectangle
UnitRectangle(b) ==
    b.y_min = 0 /\ b.y_max = MaxYX /\ b.x_min = 0 /\ b.x_max = 0

FlatArguments(c, b) ==
    [zc |-> c.zc, yc |-> c.yc, xc |-> c.xc,
     z_min |-> b.z_min, z_max |-> b.z_max,
     y_min |-> b.y_min, y_max |-> b.y_max,
     x_min |-> b.x_min, x_max |-> b.x_max]

ConstructFromFlat ==
    /\ pcBox = "new"
    /\ arguments /= NoArguments
    /\ box' = FromFlatArguments(arguments)
    /\ pcBox' = IF IsBox(FromFlatArguments(arguments)) THEN "built" ELSE "failed"
    /\ UNCHANGED <<slices, arguments, folderVars, nameVars, parseVars>>

Iterate ==
    /\ pcBox = "built"
    /\ IF IterationRaises(box)
       THEN slices' = IterationError(box) /\ pcBox' = "raised"
       ELSE slices' = IterZSlicesNonnegative(box) /\ pcBox' = "iterated"
    /\ UNCHANGED <<box, arguments, folderVars, nameVars, parseVars>>

----------------------------------------------------------------------------
(* reader.py: file names.  A name is the list of its "."-separated chunks   *)
(* (fn.split(".")), and a chunk is the list of its "_"-separated tokens.    *)

Last(s) == s[Len(s)]

Stem(prefix) == <<prefix, "rois">>
Name(stem, middle, ext) == <<stem>> \o middle \o <<ext>>

CSV == <<"csv">>

\* chunk.endswith("_rois")
EndsWithRois(chunk) == Len(chunk) >= 2 /\ Last(chunk) = "rois"

\* fn.endswith("." + the chunks of `value` joined by ".")
EndsWithValue(fn, value) ==
    /\ Len(fn) >= Len(value) + 1
    /\ SubSeq(fn, Len(fn) - Len(value) + 1, Len(fn)) = value

\* the members of InputFileContentType in definition order, with their values
InputFileContentType ==
    << [name |-> "MergeContributors", value |-> << <<"merge", "contributors">>, CSV >>],
       [name |-> "ProximityRejects", value |-> << <<"proximity", "rejected">>, CSV >>],
       [name |-> "NucleiLabeled", value |-> << <<"with", "trace", "ids">>, CSV >>] >>

NoneAsError == "ValueError"

None == "None"

MemberMatches(fn) ==
    {i \in 1..Len(InputFileContentType) : EndsWithValue(fn, InputFileContentType[i].value)}

FirstOf(S) == CHOOSE i \in S : \A j \in S : i <= j

\* InputFileContentType.from_filename
FromFilename(fn) ==
    IF ~EndsWithRois(fn[1]) THEN None
    ELSE IF Last(fn) /= CSV THEN None
    ELSE IF MemberMatches(fn) = {} THEN None
    ELSE InputFileContentType[FirstOf(MemberMatches(fn))].name

\* path.suffix == ".csv"
HasCsvSuffix(fn) ==
    /\ Len(fn) >= 2
    /\ Last(fn) = CSV
    /\ ~(Len(fn) = 2 /\ fn[1] = <<"">>)

IsPlausibleAnything(entry) == TRUE

\* _is_plausible_input_file
IsPlausibleInputFile(entry) ==
    entry.is_file /\ HasCsvSuffix(entry.name) /\ EndsWithRois(entry.name[1])

\* InputFileContentType.from_filepath
FromFilepath(entry) == FromFilename(entry.name)

\* the members of ProcessingStep in definition order: name, value and
\* filename_extension, each as a chunk
ProcessingStep ==
    << [name |-> <<"NucleiFiltration">>, value |-> <<"nuclei", "filtration">>,
        filename_extension |-> <<"nuclei", "filtered">>],
       [name |-> <<"ProximityFiltration">>, value |-> <<"proximity", "filtration">>,
        filename_extension |-> <<"proximity", "filtered">>] >>

StepExtensionOnly(member) == {member.filename_extension}

\* the strings ProcessingStep.from_string accepts for a member
StepStrings(member) == {member.name, member.value, member.filename_extension}

\* ProcessingStep.from_string: the name of the first member s spells, or None
FromString(s) ==
    LET hits == {i \in 1..Len(ProcessingStep) : s \in StepStrings(ProcessingStep[i])}
    IN  IF hits = {} THEN None ELSE ProcessingStep[FirstOf(hits)].name[1]

\* the members of ProcessingStatus in definition order, with their values
ProcessingStatus ==
    << [name |-> "Unfiltered", value |-> <<>>],
       [name |-> "ProximityFiltered", value |-> <<"ProximityFiltration">>],
       [name |-> "ProximityAndNucleiFiltered",
        value |-> <<"ProximityFiltration", "NucleiFiltration">>] >>

\* ProcessingStatus.from_filename
StatusFromFilename(name) ==
    IF ~EndsWithRois(name[1]) THEN None
    ELSE IF Last(name) /= CSV THEN None
    ELSE LET steps == [i \in 1..(Len(name) - 2) |-> FromString(name[i + 1])]
             hits == {i \in 1..Len(ProcessingStatus) : ProcessingStatus[i].value = steps}
         IN  IF hits = {} THEN None ELSE ProcessingStatus[FirstOf(hits)].name

\* the file names the classifiers are run on: up to MaxChunks chunks, each
\* from a vocabulary of stems, tags and extensions
MaxChunks == 4

Chunks ==
    { <<"P0001", "rois">>, <<"P0001">>, <<"">>, <<"csv">>, <<"CSV">>,
      <<"proximity", "filtered">>, <<"nuclei", "filtered">>,
      <<"proximity", "filtration">>, <<"NucleiFiltration">>, <<"unfiltered">>,
      <<"merge", "contributors">>, <<"proximity", "rejected">>,
      <<"with", "trace", "ids">> }

NoName == <<>>
NotInferred == [status |-> "none", content_type |-> "none"]

\* both from_filename classifiers on one name
Classify ==
    /\ filename /= NoName
    /\ inferred = NotInferred
    /\ inferred' = [status |-> StatusFromFilename(filename),
                    content_type |-> FromFilename(filename)]
    /\ UNCHANGED <<filename, boxVars, folderVars, parseVars>>

\* the folder entries the model draws from
File(fn) == [name |-> fn, is_file |-> TRUE]
Folder(fn) == [name |-> fn, is_file |-> FALSE]

MergeContributorsChunk == <<"merge", "contributors">>
ProximityRejectedChunk == <<"proximity", "rejected">>
WithTraceIdsChunk == <<"with", "trace", "ids">>

\* P0001_rois.merge_contributors.csv, P0002_rois.merge_contributors.csv
MergeFileA == File(Name(Stem("P0001"), <<MergeContributorsChunk>>, CSV))
MergeFileB == File(Name(Stem("P0002"), <<MergeContributorsChunk>>, CSV))
\* P0001_rois.proximity_rejected.csv
ProximityFile == File(Name(Stem("P0001"), <<ProximityRejectedChunk>>, CSV))
\* P0001_rois.with_trace_ids.csv
NucleiFile == File(Name(Stem("P0001"), <<WithTraceIdsChunk>>, CSV))
\* P0001_rois.unfiltered.csv, P0001_rois.csv: plausible, of no content type
UnfilteredFile == File(Name(Stem("P0001"), << <<"unfiltered">> >>, CSV))
BareFile == File(Name(Stem("P0001"), <<>>, CSV))
\* P0001_rois.with_trace_ids.tsv: not a .csv file
TsvFile == File(Name(Stem("P0001"), <<WithTraceIdsChunk>>, <<"tsv">>))
\* P0001.proximity_rejected.csv: the stem lacks _rois
NoRoisFile == File(Name(<<"P0001">>, <<ProximityRejectedChunk>>, CSV))
\* a subfolder named P0003_rois.merge_contributors.csv
SubFolder == Folder(Name(Stem("P0003"), <<MergeContributorsChunk>>, CSV))

Pool ==
    {MergeFileA, MergeFileB, ProximityFile, NucleiFile, UnfilteredFile, BareFile,
     TsvFile, NoRoisFile, SubFolder}

----------------------------------------------------------------------------
(* reader.py: get_reader, the probe *)

\* Counter(...)[kind] over the plausible input files of the folder
CountByKind(entries, kind) ==
    Cardinality({e \in entries : IsPlausibleInputFile(e) /\ FromFilepath(e) = kind})

KindNames == {InputFileContentType[i].name : i \in 1..Len(InputFileContentType)}

\* the keys of the Counter
CountedKinds(entries) ==
    {k \in KindNames \cup {None} : CountByKind(entries, k) > 0}

\* any(n != 1 for n in count_by_kind.values())
CountsRejectRequireAll(entries) ==
    \E k \in KindNames : CountByKind(entries, k) /= 1

CountsRejectBelowOne(entries) ==
    \E k \in CountedKinds(entries) : CountByKind(entries, k) < 1

CountsReject(entries) ==
    \E k \in CountedKinds(entries) : CountByKind(entries, k) /= 1

\* the values get_reader is called with: a list of paths, a value that is
\* neither a str nor a Path, and a str or a Path that names nothing, a regular
\* file or the folder
PathKinds ==
    {"list of paths", "neither str nor Path", "str of a missing path", "missing path",
     "regular file", "str of the directory", "directory"}

\* isinstance(path, Path), after a str has been wrapped in a Path
IsPath(pathKind) == pathKind \notin {"list of paths", "neither str nor Path"}

\* path.is_dir()
IsDir(pathKind) == pathKind \in {"str of the directory", "directory"}

GetReaderNoDirCheck(pathKind, entries) ==
    IF ~IsPath(pathKind) THEN "null"
    ELSE IF ~IsDir(pathKind) THEN "NotADirectoryError"
    ELSE IF CountsReject(entries) THEN "null"
    ELSE "reader"

\* get_reader(path): "null" for None, "reader" for build_layers
GetReader(pathKind, entries) ==
    IF ~IsPath(pathKind) THEN "null"
    ELSE IF ~IsDir(pathKind) THEN "null"
    ELSE IF CountsReject(entries) THEN "null"
    ELSE "reader"

----------------------------------------------------------------------------
(* roi.py, types.py and the row parsers of reader.py *)

IsError(x) == "error" \in DOMAIN x
Raise(kind, msg) == [error |-> kind, message |-> msg]

ToSet(s) == {s[i] : i \in 1..Len(s)}

\* the first error of a list of results, in list order
FirstError(rs) == rs[FirstOf({i \in 1..Len(rs) : IsError(rs[i])})]
AnyError(rs) == \E i \in 1..Len(rs) : IsError(rs[i])

IBM_BLUE == "#648FFF"
IBM_PURPLE == "#785EF0"
IBM_PINK == "#DC267F"
IBM_ORANGE == "#FE6100"
IBM_YELLOW == "#FFB000"

\* MergeContributorRoi(...) with its __post_init__
MergeContributorRoi(id, t, c, b, merge_index) ==
    IF id = merge_index
    THEN Raise("ValueError", "A MergeContributorRoi's index can't equal its merge_index")
    ELSE [typename |-> "MergeContributorRoi", color |-> IBM_PURPLE,
          id |-> id, timepoint |-> t, channel |-> c, bounding_box |-> b,
          merge_index |-> merge_index]

\* ProximityRejectedRoi(...) with its __post_init__
ProximityRejectedRoi(id, t, c, b, neighbors) ==
    IF neighbors = {}
    THEN Raise("ValueError", "Set of neighbors for ProximityRejectedRoi is empty")
    ELSE [typename |-> "ProximityRejectedRoi", color |-> IBM_BLUE,
          id |-> id, timepoint |-> t, channel |-> c, bounding_box |-> b,
          neighbors |-> neighbors]

NonNuclearRoi(t, c, b) ==
    [typename |-> "NonNuclearRoi", color |-> IBM_ORANGE,
     timepoint |-> t, channel |-> c, bounding_box |-> b]

SingletonRoi(id, t, c, b, traceId, trace_partners, nucleus_number) ==
    [typename |-> "SingletonRoi", color |-> IBM_PINK,
     id |-> id, timepoint |-> t, channel |-> c, bounding_box |-> b,
     traceId |-> traceId, trace_partners |-> trace_partners,
     nucleus_number |-> nucleus_number]

MergedRoiNoSelfCheck(id, t, c, b, contributors, traceId, trace_partners, nucleus_number) ==
    IF Cardinality(contributors) < 2
    THEN Raise("ValueError", "A MergedRoi must have at least 2 contributors")
    ELSE [typename |-> "MergedRoi", color |-> IBM_YELLOW,
          id |-> id, timepoint |-> t, channel |-> c, bounding_box |-> b,
          contributors |-> contributors,
          traceId |-> traceId, trace_partners |-> trace_partners,
          nucleus_number |-> nucleus_number]

\* MergedRoi(...) with its __post_init__
MergedRoi(id, t, c, b, contributors, traceId, trace_partners, nucleus_number) ==
    IF Cardinality(contributors) < 2
    THEN Raise("ValueError", "A MergedRoi must have at least 2 contributors")
    ELSE IF id \in contributors
    THEN Raise("ValueError", "A MergedRoi's index can't be in its collection of contributors")
    ELSE [typename |-> "MergedRoi", color |-> IBM_YELLOW,
          id |-> id, timepoint |-> t, channel |-> c, bounding_box |-> b,
          contributors |-> contributors,
          traceId |-> traceId, trace_partners |-> trace_partners,
          nucleus_number |-> nucleus_number]

\* NucleusNumber(get) with its __post_init__
NucleusNumber(get) ==
    IF get < 1
    THEN Raise("ValueError", "A nucleus number must be a strictly positive integer")
    ELSE [get |-> get]

\* TraceIdFrom0(get)
TraceIdFrom0(get) == [get |-> get]

\* _parse_time_channel_box_trio
ParseTimeChannelBoxTrio(row) ==
    LET b == BoundingBox3D(row.box)
    IN  IF IsError(b) THEN b
        ELSE [timepoint |-> row.timepoint, channel |-> row.spotChannel, bounding_box |-> b]

\* _parse_merge_contributor_record
ParseMergeContributorRecord(row) ==
    LET trio == ParseTimeChannelBoxTrio(row)
    IN  IF IsError(trio) THEN trio
        ELSE MergeContributorRoi(row.index, trio.timepoint, trio.channel,
                                 trio.bounding_box, row.mergeOutput)

ParseNeighborsCollapsing(cell) ==
    IF cell = <<>> THEN Raise("ValueError", "invalid literal for int()")
    ELSE [ids |-> ToSet(cell)]

\* _parse_neighbors: a cell is the list of the integers written in it, and an
\* empty cell is read as NaN
ParseNeighbors(cell) ==
    IF cell = <<>> THEN Raise("ValueError", "invalid literal for int()")
    ELSE IF Cardinality(ToSet(cell)) = Len(cell) THEN [ids |-> ToSet(cell)]
    ELSE Raise("ValueError", "Repeated values are present among proximal neighbors")

\* one element of the list built by _parse_proximity_rejects_table
ParseProximityRejectsRecord(row) ==
    LET ns == ParseNeighbors(row.tooCloseRois)
        trio == ParseTimeChannelBoxTrio(row)
    IN  IF IsError(ns) THEN ns
        ELSE IF IsError(trio) THEN trio
        ELSE [id |-> row.index, neighbors |-> ns.ids, timepoint |-> trio.timepoint,
              channel |-> trio.channel, bounding_box |-> trio.bounding_box]

\* _parse_roi_ids_field
ParseRoiIdsField(cell) == ToSet(cell)

ParseNucleusLabeledRowMergeFirst(row) ==
    LET traceId == TraceIdFrom0(row.traceId)
        trace_partners == ParseRoiIdsField(row.tracePartners)
        nuc == IF row.nucleusNumber = 0 THEN [none |-> TRUE]
               ELSE NucleusNumber(row.nucleusNumber)
        trio == ParseTimeChannelBoxTrio(row)
    IN  IF IsError(nuc) THEN nuc
        ELSE IF IsError(trio) THEN trio
        ELSE IF row.mergePartners /= <<>>
        THEN MergedRoi(row.index, trio.timepoint, trio.channel, trio.bounding_box,
                       ParseRoiIdsField(row.mergePartners), traceId, trace_partners, nuc)
        ELSE IF "none" \in DOMAIN nuc
        THEN NonNuclearRoi(trio.timepoint, trio.channel, trio.bounding_box)
        ELSE SingletonRoi(row.index, trio.timepoint, trio.channel, trio.bounding_box,
                          traceId, trace_partners, nuc)

\* _parse_nucleus_labeled_record followed by the match of
\* _parse_non_contributor_non_proximal_rois
ParseNucleusLabeledRow(row) ==
    LET traceId == TraceIdFrom0(row.traceId)
        trace_partners == ParseRoiIdsField(row.tracePartners)
        nuc == IF row.nucleusNumber = 0 THEN [none |-> TRUE]
               ELSE NucleusNumber(row.nucleusNumber)
        trio == ParseTimeChannelBoxTrio(row)
    IN  IF IsError(nuc) THEN nuc
        ELSE IF IsError(trio) THEN trio
        ELSE IF "none" \in DOMAIN nuc
        THEN NonNuclearRoi(trio.timepoint, trio.channel, trio.bounding_box)
        ELSE IF row.mergePartners = <<>>
        THEN SingletonRoi(row.index, trio.timepoint, trio.channel, trio.bounding_box,
                          traceId, trace_partners, nuc)
        ELSE MergedRoi(row.index, trio.timepoint, trio.channel, trio.bounding_box,
                       ParseRoiIdsField(row.mergePartners), traceId, trace_partners, nuc)

RECURSIVE GroupByTypePrepending(_, _)
GroupByTypePrepending(rois, acc) ==
    IF rois = <<>> THEN acc
    ELSE LET r == Head(rois)
             at == {i \in 1..Len(acc) : acc[i].roi_type = r.typename}
         IN  IF at = {}
             THEN GroupByTypePrepending(Tail(rois),
                      <<[roi_type |-> r.typename, rois |-> <<r>>]>> \o acc)
             ELSE GroupByTypePrepending(Tail(rois),
                      [acc EXCEPT ![FirstOf(at)].rois = Append(@, r)])

\* rois_by_type.setdefault(type(r), []).append(r), for the rois in order
RECURSIVE GroupByType(_, _)
GroupByType(rois, acc) ==
    IF rois = <<>> THEN acc
    ELSE LET r == Head(rois)
             at == {i \in 1..Len(acc) : acc[i].roi_type = r.typename}
         IN  IF at = {}
             THEN GroupByType(Tail(rois),
                              Append(acc, [roi_type |-> r.typename, rois |-> <<r>>]))
             ELSE GroupByType(Tail(rois),
                              [acc EXCEPT ![FirstOf(at)].rois = Append(@, r)])

\* rois_by_type of one file: the buckets in insertion order, or the error raised
RoisByType(file_type, rows) ==
    IF file_type = "MergeContributors"
    THEN LET parsed == [i \in 1..Len(rows) |-> ParseMergeContributorRecord(rows[i])]
         IN  IF AnyError(parsed) THEN FirstError(parsed)
             ELSE [buckets |-> << [roi_type |-> "MergeContributorRoi", rois |-> parsed] >>]
    ELSE IF file_type = "NucleiLabeled"
    THEN LET parsed == [i \in 1..Len(rows) |-> ParseNucleusLabeledRow(rows[i])]
         IN  IF AnyError(parsed) THEN FirstError(parsed)
             ELSE [buckets |-> GroupByType(parsed, <<>>)]
    ELSE IF file_type = "ProximityRejects"
    THEN LET parsed == [i \in 1..Len(rows) |-> ParseProximityRejectsRecord(rows[i])]
             built == [i \in 1..Len(parsed) |->
                          LET p == parsed[i]
                          IN  ProximityRejectedRoi(p.id, p.timepoint, p.channel,
                                                   p.bounding_box, p.neighbors)]
         IN  IF AnyError(parsed) THEN FirstError(parsed)
             ELSE IF AnyError(built) THEN FirstError(built)
             ELSE [buckets |-> << [roi_type |-> "ProximityRejectedRoi", rois |-> built] >>]
    ELSE Raise("RuntimeError", "Unexpected file type (can't determine ROI type)!")

----------------------------------------------------------------------------
(* settings.py.  An environment variable is [set |-> FALSE] or               *)
(* [set |-> TRUE, value |-> v].                                              *)

DEFAULT_MAX_NUM_PARTNERS_TO_DISPLAY == 5

Unset == [set |-> FALSE]
SetTo(v) == [set |-> TRUE, value |-> v]

\* _get_default_false
GetDefaultFalse(var) == var.set /\ var.value \in {"True", "TRUE", "T", "1"}

\* display_proximity_rejects_annotation
DisplayProximityRejectsAnnotation(env) ==
    GetDefaultFalse(env.LOOPTRACE__DISPLAY_PROXIMITY_REJECTS_ANNOTATION)

\* display_roi_id_for_singletons
DisplayRoiIdForSingletons(env) ==
    GetDefaultFalse(env.LOOPTRACE__DISPLAY_SINGLETON_ROI_IDS)

MaximumIgnoringToggle(env) ==
    IF env.LOOPTRACE__MAX_PROXIMITY_PARTNERS_TO_DISPLAY.set
    THEN env.LOOPTRACE__MAX_PROXIMITY_PARTNERS_TO_DISPLAY.value
    ELSE DEFAULT_MAX_NUM_PARTNERS_TO_DISPLAY

\* get_maximum_number_of_proximity_partners_to_display; the variable, when
\* set, holds the integer that int() reads from it
GetMaximumNumberOfProximityPartnersToDisplay(env) ==
    IF DisplayProximityRejectsAnnotation(env)
    THEN IF env.LOOPTRACE__MAX_PROXIMITY_PARTNERS_TO_DISPLAY.set
         THEN env.LOOPTRACE__MAX_PROXIMITY_PARTNERS_TO_DISPLAY.value
         ELSE DEFAULT_MAX_NUM_PARTNERS_TO_DISPLAY
    ELSE 0

----------------------------------------------------------------------------
(* reader.py: build_layers *)

RECURSIVE Flatten(_)
Flatten(ss) == IF ss = <<>> THEN <<>> ELSE Head(ss) \o Flatten(Tail(ss))

RECURSIVE SortedSeq(_)
\* sorted(S) of a set of integers
SortedSeq(S) ==
    IF S = {} THEN <<>>
    ELSE LET m == CHOOSE x \in S : \A y \in S : x <= y
         IN  <<m>> \o SortedSeq(S \ {m})

\* s[:limit] of a Python list
SliceTo(s, limit) ==
    IF limit >= 0 THEN SubSeq(s, 1, Min(limit, Len(s)))
    ELSE SubSeq(s, 1, Max(0, Len(s) + limit))

\* _get_proximity_rejects_neighbors_text: the ","-separated items of the text
GetProximityRejectsNeighborsText(roi, limit) ==
    LET neighbors == SliceTo(SortedSeq(roi.neighbors), limit)
        extra == Cardinality(roi.neighbors) - Len(neighbors)
    IN  [i \in 1..Len(neighbors) |-> [id |-> neighbors[i]]]
        \o (IF extra > 0 THEN << [plus |-> extra] >> ELSE <<>>)

\* _point_to_list
PointToList(pt) == <<pt.z, pt.y, pt.x>>

PolygonSwapped(r, s) ==
    [k \in 1..4 |-> <<r.timepoint, r.channel>> \o PointToList(<<s.q2, s.q1, s.q3, s.q4>>[k])]

\* the element appended to corners for one slice of one ROI
Polygon(r, s) ==
    [k \in 1..4 |-> <<r.timepoint, r.channel>> \o PointToList(<<s.q1, s.q2, s.q3, s.q4>>[k])]

ShapeTagInverted(s) == IF s.is_center THEN "ellipse" ELSE "rectangle"

\* the element appended to shapes for one slice
ShapeTag(s) == IF s.is_center THEN "rectangle" ELSE "ellipse"

PerRoiFirstSlice(rois) ==
    Flatten([i \in 1..Len(rois) |->
                LET zs == IterZSlicesNonnegative(rois[i].bounding_box)
                IN  IF zs = <<>> THEN <<>> ELSE << [r |-> rois[i], slice |-> zs[1]] >>])

\* [(r, slice) for r in rois for slice in r.bounding_box.iter_z_slices_nonnegative()]
PerSlice(rois) ==
    Flatten([i \in 1..Len(rois) |->
                LET zs == IterZSlicesNonnegative(rois[i].bounding_box)
                IN  [j \in 1..Len(zs) |-> [r |-> rois[i], slice |-> zs[j]]]])

NoFeatures == [features |-> <<>>, format_string_parts |-> <<>>]

\* step 3 of the layer loop: the features and the parts of the format string
Features(roi_type, rois, env) ==
    LET ps == PerSlice(rois) IN
    IF roi_type = "MergeContributorRoi"
    THEN [features |-> [mergeId |-> [k \in 1..Len(ps) |-> ps[k].r.merge_index]],
          format_string_parts |-> <<"i={mergeId}">>]
    ELSE IF roi_type = "MergedRoi"
    THEN [features |-> [mergeId |-> [k \in 1..Len(ps) |-> ps[k].r.id],
                        traceId |-> [k \in 1..Len(ps) |-> ps[k].r.traceId.get]],
          format_string_parts |-> <<"i={mergeId}", "t={traceId}">>]
    ELSE IF roi_type = "SingletonRoi"
    THEN IF DisplayRoiIdForSingletons(env)
         THEN [features |-> [traceId |-> [k \in 1..Len(ps) |-> ps[k].r.traceId.get],
                             roiId |-> [k \in 1..Len(ps) |-> ps[k].r.id]],
               format_string_parts |-> <<"t={traceId}", "i={roiId}">>]
         ELSE [features |-> [traceId |-> [k \in 1..Len(ps) |-> ps[k].r.traceId.get]],
               format_string_parts |-> <<"t={traceId}">>]
    ELSE IF roi_type = "ProximityRejectedRoi"
    THEN LET max_neighbors == GetMaximumNumberOfProximityPartnersToDisplay(env)
         IN  IF max_neighbors = 0 THEN NoFeatures
             ELSE [features |->
                      [proximityAnnotation |->
                          [k \in 1..Len(ps) |->
                              [id |-> ps[k].r.id,
                               text |-> GetProximityRejectsNeighborsText(ps[k].r,
                                                                         max_neighbors)]]],
                   format_string_parts |-> <<"{proximityAnnotation}">>]
    ELSE NoFeatures

TEXT_SIZE == 8

\* the layer appended for a non-empty bucket
Layer(roi_type, rois, env) ==
    LET layer_color == rois[1].color
        ps == PerSlice(rois)
        f == Features(roi_type, rois, env)
        params == [name |-> roi_type,
                   shape_type |-> [k \in 1..Len(ps) |-> ShapeTag(ps[k].slice)],
                   face_color |-> "transparent",
                   edge_color |-> layer_color]
    IN  [data |-> [k \in 1..Len(ps) |-> Polygon(ps[k].r, ps[k].slice)],
         params |-> IF DOMAIN f.features /= {}
                    THEN params @@ [features |-> f.features,
                                    text |-> [string |-> f.format_string_parts,
                                              size |-> TEXT_SIZE,
                                              color |-> layer_color]]
                    ELSE params,
         layer_type |-> "shapes"]

\* except IndexError: continue
SkipsBucket(rois) == Len(rois) = 0

\* the layers of the buckets of one file
LayersOfBuckets(buckets, env) ==
    LET kept == SelectSeq(buckets, LAMBDA b : ~SkipsBucket(b.rois))
    IN  [i \in 1..Len(kept) |-> Layer(kept[i].roi_type, kept[i].rois, env)]

RECURSIVE FileByKindKeepFirst(_, _)
FileByKindKeepFirst(listing, acc) ==
    IF listing = <<>> THEN [items |-> acc]
    ELSE LET fp == Head(listing)
             kind == FromFilepath(fp)
         IN  IF ~IsPlausibleInputFile(fp) THEN FileByKindKeepFirst(Tail(listing), acc)
             ELSE IF kind = None THEN FileByKindKeepFirst(Tail(listing), acc)
             ELSE IF \E i \in 1..Len(acc) : acc[i].kind = kind
             THEN FileByKindKeepFirst(Tail(listing), acc)
             ELSE FileByKindKeepFirst(Tail(listing),
                                      Append(acc, [kind |-> kind, path |-> fp]))

\* the first loop of build_layers over the listing of the folder: file_by_kind
\* as the list of its items in insertion order, or the KeyError
RECURSIVE FileByKind(_, _)
FileByKind(listing, acc) ==
    IF listing = <<>> THEN [items |-> acc]
    ELSE LET fp == Head(listing)
             kind == FromFilepath(fp)
         IN  IF ~IsPlausibleInputFile(fp) THEN FileByKind(Tail(listing), acc)
             ELSE IF kind = None THEN FileByKind(Tail(listing), acc)
             ELSE IF \E i \in 1..Len(acc) : acc[i].kind = kind
             THEN Raise("KeyError", "Data kind already found")
             ELSE FileByKind(Tail(listing), Append(acc, [kind |-> kind, path |-> fp]))

RECURSIVE LayersOfFilesSkipping(_, _, _, _)
LayersOfFilesSkipping(items, rows_of, env, layers) ==
    IF items = <<>> THEN [layers |-> layers]
    ELSE LET parsed == RoisByType(Head(items).kind, rows_of[Head(items).kind])
         IN  IF IsError(parsed)
             THEN LayersOfFilesSkipping(Tail(items), rows_of, env, layers)
             ELSE LayersOfFilesSkipping(Tail(items), rows_of, env,
                                        layers \o LayersOfBuckets(parsed.buckets, env))

RECURSIVE LayersOfFilesEmptyRaises(_, _, _, _)
LayersOfFilesEmptyRaises(items, rows_of, env, layers) ==
    IF items = <<>> THEN [layers |-> layers]
    ELSE LET parsed == IF rows_of[Head(items).kind] = <<>>
                       THEN Raise("EmptyDataError", "No columns to parse from file")
                       ELSE RoisByType(Head(items).kind, rows_of[Head(items).kind])
         IN  IF IsError(parsed) THEN parsed
             ELSE LayersOfFilesEmptyRaises(Tail(items), rows_of, env,
                                           layers \o LayersOfBuckets(parsed.buckets, env))

\* the second loop of build_layers: the layers, or the first error raised
RECURSIVE LayersOfFiles(_, _, _, _)
LayersOfFiles(items, rows_of, env, layers) ==
    IF items = <<>> THEN [layers |-> layers]
    ELSE LET parsed == RoisByType(Head(items).kind, rows_of[Head(items).kind])
         IN  IF IsError(parsed) THEN parsed
             ELSE LayersOfFiles(Tail(items), rows_of, env,
                                layers \o LayersOfBuckets(parsed.buckets, env))

\* build_layers(folder): [layers |-> ...] or the error raised
BuildLayers(listing, rows_of, env) ==
    LET file_by_kind == FileByKind(listing, <<>>)
    IN  IF IsError(file_by_kind) THEN file_by_kind
        ELSE LayersOfFiles(file_by_kind.items, rows_of, env, <<>>)

----------------------------------------------------------------------------
(* The rows the model draws the data files from *)

MaxRows == 2        \* rows of the three data files of a folder, together

BoxOf(zc, z_min, z_max) ==
    [center |-> [z |-> zc, y |-> 4, x |-> 10],
     z_min |-> z_min, z_max |-> z_max,
     y_min |-> 2, y_max |-> 6, x_min |-> 8, x_max |-> 12]

BoxSeveral == BoxOf(3, 1, 5)                \* several slices
BoxNoCenter == BoxOf(3, 2, 3)               \* a box of positive z
BoxBelowZero == BoxOf(0 - 4, 0 - 6, 0 - 2)  \* wholly below z = 0
BoxStraddle == BoxOf(0, 0 - 2, 1)           \* z_min < 0 <= z_max
BoxInverted == BoxOf(3, 4, 2)               \* z_min > z_max

MergeContributorRow(index, t, c, b, mergeOutput) ==
    [index |-> index, timepoint |-> t, spotChannel |-> c, box |-> b,
     mergeOutput |-> mergeOutput]

ProximityRejectRow(index, t, c, b, tooCloseRois) ==
    [index |-> index, timepoint |-> t, spotChannel |-> c, box |-> b,
     tooCloseRois |-> tooCloseRois]

NucleusLabeledRow(index, t, c, b, nucleusNumber, mergePartners, traceId, tracePartners) ==
    [index |-> index, timepoint |-> t, spotChannel |-> c, box |-> b,
     nucleusNumber |-> nucleusNumber, mergePartners |-> mergePartners,
     traceId |-> traceId, tracePartners |-> tracePartners]

MergeContributorRows ==
    { MergeContributorRow(1, 0, 0, BoxSeveral, 5),
      MergeContributorRow(2, 1, 1, BoxNoCenter, 5),
      MergeContributorRow(6, 0, 1, BoxStraddle, 6) }

ProximityRejectRows ==
    { ProximityRejectRow(3, 0, 1, BoxSeveral, <<9, 4, 7>>),
      ProximityRejectRow(4, 2, 0, BoxBelowZero, <<3>>),
      ProximityRejectRow(7, 1, 0, BoxStraddle, <<12, 12>>) }

NucleusLabeledRows ==
    { NucleusLabeledRow(10, 0, 0, BoxSeveral, 0, <<>>, 0, <<>>),
      NucleusLabeledRow(11, 1, 0, BoxStraddle, 2, <<>>, 1, <<12>>),
      NucleusLabeledRow(12, 1, 1, BoxNoCenter, 1, <<1, 2>>, 1, <<11>>),
      NucleusLabeledRow(13, 0, 1, BoxBelowZero, 0, <<1, 2>>, 2, <<>>),
      NucleusLabeledRow(14, 2, 1, BoxInverted, 3, <<>>, 3, <<>>) }

Tables(mc, pr, nl) ==
    [MergeContributors |-> mc, ProximityRejects |-> pr, NucleiLabeled |-> nl]

EmptyTables == Tables(<<>>, <<>>, <<>>)

\* the data files of the bundled example: every ROI type occurs
ExampleTables ==
    Tables(<< MergeContributorRow(1, 0, 0, BoxSeveral, 5),
              MergeContributorRow(2, 1, 1, BoxNoCenter, 5) >>,
           << ProximityRejectRow(3, 0, 1, BoxSeveral, <<9, 4, 7>>) >>,
           << NucleusLabeledRow(11, 1, 0, BoxStraddle, 2, <<>>, 1, <<12>>),
              NucleusLabeledRow(10, 0, 0, BoxSeveral, 0, <<>>, 0, <<>>),
              NucleusLabeledRow(12, 1, 1, BoxNoCenter, 1, <<1, 2>>, 1, <<11>>) >>)

\* some types without ROIs
SparseTables ==
    Tables(<<>>,
           << ProximityRejectRow(4, 2, 0, BoxBelowZero, <<3>>) >>,
           << NucleusLabeledRow(10, 0, 0, BoxSeveral, 0, <<>>, 0, <<>>) >>)

DefaultEnv ==
    [LOOPTRACE__DISPLAY_PROXIMITY_REJECTS_ANNOTATION |-> Unset,
     LOOPTRACE__DISPLAY_SINGLETON_ROI_IDS |-> Unset,
     LOOPTRACE__MAX_PROXIMITY_PARTNERS_TO_DISPLAY |-> Unset]

Env(prox, singleton, partners) ==
    [LOOPTRACE__DISPLAY_PROXIMITY_REJECTS_ANNOTATION |-> prox,
     LOOPTRACE__DISPLAY_SINGLETON_ROI_IDS |-> singleton,
     LOOPTRACE__MAX_PROXIMITY_PARTNERS_TO_DISPLAY |-> partners]

Envs ==
    { DefaultEnv,
      Env(SetTo("1"), SetTo("True"), Unset),
      Env(SetTo("T"), SetTo("0"), SetTo(2)),
      Env(SetTo("TRUE"), Unset, SetTo(0)),
      Env(SetTo("no"), SetTo("1"), SetTo(1)),
      Env(SetTo("1"), Unset, SetTo(0 - 1)) }

----------------------------------------------------------------------------
(* One row of a data file, parsed as the reader parses the rows of the file *)

MaxId == 3          \* ROI ids are 1..MaxId
MaxCell == 3        \* ids written in one cell of mergePartners or tooCloseRois

Ids == 1..MaxId

\* the cells of an id list: the integers written in it, none for an empty cell
CellsUpTo(n) == UNION {[1..k -> Ids] : k \in 0..n}
Cells == CellsUpTo(MaxCell)
TraceCells == CellsUpTo(MaxCell - 1)

RowBoxes == {BoxSeveral, BoxInverted}

\* a row of a file of a content type, with the content type
Record(file_type, row) == [file_type |-> file_type, row |-> row]

NoRecord == [file_type |-> "none"]
NotParsed == [typename |-> "none"]

\* the ROI a file that holds the one row gives, or the error its parse raises
RoiOfRow(file_type, row) ==
    LET out == RoisByType(file_type, <<row>>)
    IN  IF IsError(out) THEN out ELSE out.buckets[1].rois[1]

ParseRow ==
    /\ record /= NoRecord
    /\ parsedRoi = NotParsed
    /\ parsedRoi' = RoiOfRow(record.file_type, record.row)
    /\ UNCHANGED <<record, boxVars, folderVars, nameVars>>

----------------------------------------------------------------------------
(* The folder: its entries change, get_reader probes it, the reader builds *)

Unprobed == [returned |-> "unprobed", path |-> "none", stale |-> FALSE]
NoResult == [call |-> "none"]

\* the plausible input files of a content type
Classified(entries) ==
    {e \in entries : IsPlausibleInputFile(e) /\ FromFilepath(e) /= None}

Orderings(S) ==
    {s \in [1..Cardinality(S) -> S] : \A i, j \in 1..Cardinality(S) : i /= j => s[i] /= s[j]}

RECURSIVE SomeOrdering(_)
SomeOrdering(S) ==
    IF S = {} THEN <<>>
    ELSE LET e == CHOOSE x \in S : TRUE IN <<e>> \o SomeOrdering(S \ {e})

\* Path(folder).iterdir() yields the entries in arbitrary order; the place of
\* an entry of no content type changes nothing, so these come first
Listings(entries) ==
    {SomeOrdering(entries \ Classified(entries)) \o o : o \in Orderings(Classified(entries))}

AddFile ==
    \E e \in Pool \ dir :
        /\ dir' = dir \cup {e}
        /\ reader' = IF reader = Unprobed THEN reader ELSE [reader EXCEPT !.stale = TRUE]
        /\ result' = NoResult
        /\ UNCHANGED <<boxVars, nameVars, parseVars, tables, settings>>

RemoveFile ==
    \E e \in dir :
        /\ dir' = dir \ {e}
        /\ reader' = IF reader = Unprobed THEN reader ELSE [reader EXCEPT !.stale = TRUE]
        /\ result' = NoResult
        /\ UNCHANGED <<boxVars, nameVars, parseVars, tables, settings>>

\* get_reader(path), where a path that is a directory is the folder
Probe ==
    \E p \in PathKinds :
        /\ reader' = [returned |-> GetReader(p, dir), path |-> p, stale |-> FALSE]
        /\ result' = NoResult
        /\ UNCHANGED <<boxVars, nameVars, parseVars, dir, tables, settings>>

\* reader(folder): the call of build_layers on the folder
Build ==
    /\ reader.returned = "reader"
    /\ \E listing \in Listings(dir) :
          result' = [call |-> "build", listing |-> listing,
                     out |-> BuildLayers(listing, tables, settings)]
    /\ UNCHANGED <<boxVars, nameVars, parseVars, dir, tables, settings, reader>>

\* a folder with its data files
FolderOf(entries, rows_of) == [entries |-> entries, tables |-> rows_of]

\* folders other than the one get_reader was called on
OtherFolders ==
    { FolderOf({ProximityFile, NucleiFile}, SparseTables),
      FolderOf({MergeFileA, MergeFileB}, ExampleTables),
      FolderOf({NucleiFile, UnfilteredFile, TsvFile}, ExampleTables) }

FolderOfProbe(folder, path) == path

\* build_layers reads its parameter folder, not the path of get_reader
FolderOfCall(folder, path) == folder

\* reader(folder) on a folder that is not the path get_reader was called on
BuildElsewhere ==
    /\ reader.returned = "reader"
    /\ \E folder \in OtherFolders :
          LET read == FolderOfCall(folder, FolderOf(dir, tables))
          IN  \E listing \in Listings(read.entries) :
                 result' = [call |-> "build", folder |-> folder, listing |-> listing,
                            out |-> BuildLayers(listing, read.tables, settings)]
    /\ UNCHANGED <<boxVars, nameVars, parseVars, dir, tables, settings, reader>>

\* the environment variables change between two calls
ChangeSettings ==
    /\ \E env \in Envs \ {settings} : settings' = env
    /\ result' = NoResult
    /\ UNCHANGED <<boxVars, nameVars, parseVars, dir, tables, reader>>

----------------------------------------------------------------------------
(* Specifications *)

NamesIdle == filename = NoName /\ inferred = NotInferred

ParseIdle == record = NoRecord /\ parsedRoi = NotParsed

BoxIdle == pcBox = "new" /\ arguments = NoArguments /\ box = NoBox /\ slices = <<>>

\* boxes alone
InitBox ==
    /\ BoxIdle
    /\ dir = {} /\ tables = EmptyTables /\ settings = DefaultEnv
    /\ reader = Unprobed /\ result = NoResult
    /\ NamesIdle /\ ParseIdle

NextBox == Construct \/ Iterate

\* one constructor call on given arguments, then the expansion of the box
InitConstruct ==
    /\ pcBox = "new" /\ box = NoBox /\ slices = <<>>
    /\ \E b \in BoundArguments :
          \/ \E c \in GridCenters : arguments = FlatArguments(c, b)
          \/ /\ UnitRectangle(b)
             /\ \E c \in SpecialCenters : arguments = FlatArguments(c, b)
    /\ dir = {} /\ tables = EmptyTables /\ settings = DefaultEnv
    /\ reader = Unprobed /\ result = NoResult
    /\ NamesIdle /\ ParseIdle

NextConstruct == ConstructFromFlat \/ Iterate

SpecBox == InitBox /\ [][NextBox]_vars

SpecConstruct == InitConstruct /\ [][NextConstruct]_vars

\* the classifiers on one file name
InitNames ==
    /\ BoxIdle
    /\ dir = {} /\ tables = EmptyTables /\ settings = DefaultEnv
    /\ reader = Unprobed /\ result = NoResult
    /\ \E n \in 1..MaxChunks : filename \in [1..n -> Chunks]
    /\ inferred = NotInferred
    /\ ParseIdle

NextNames == Classify

SpecNames == InitNames /\ [][NextNames]_vars

\* the parse of one row of a file of each content type
InitParse ==
    /\ BoxIdle /\ NamesIdle
    /\ dir = {} /\ tables = EmptyTables /\ settings = DefaultEnv
    /\ reader = Unprobed /\ result = NoResult
    /\ \E i \in 1..2 : \E b \in RowBoxes :
          \/ \E m \in Ids :
                record = Record("MergeContributors", MergeContributorRow(i, 0, 1, b, m))
          \/ \E ns \in Cells :
                record = Record("ProximityRejects", ProximityRejectRow(i, 0, 1, b, ns))
          \/ \E n \in (0 - 1)..2 : \E mp \in Cells : \E tp \in TraceCells :
                record = Record("NucleiLabeled",
                                NucleusLabeledRow(i, 0, 1, b, n, mp, 0, tp))
    /\ parsedRoi = NotParsed

NextParse == ParseRow

SpecParse == InitParse /\ [][NextParse]_vars

\* a folder whose entries come and go, over a few data files
Init ==
    /\ BoxIdle
    /\ dir = {}
    /\ \E p \in { <<ExampleTables, DefaultEnv>>,
                  <<ExampleTables, Env(SetTo("1"), SetTo("True"), Unset)>>,
                  <<SparseTables, Env(SetTo("T"), SetTo("0"), SetTo(2))>> } :
          tables = p[1] /\ settings = p[2]
    /\ reader = Unprobed /\ result = NoResult
    /\ NamesIdle /\ ParseIdle

Next == AddFile \/ RemoveFile \/ Probe \/ Build

Spec == Init /\ [][Next]_vars

\* a folder with one file of each content type, over arbitrary data files
InitRows ==
    /\ BoxIdle
    /\ dir = {MergeFileA, ProximityFile, NucleiFile, UnfilteredFile}
    /\ \E a \in 0..MaxRows : \E b \in 0..(MaxRows - a) : \E c \in 0..(MaxRows - a - b) :
          \E mc \in [1..a -> MergeContributorRows] :
          \E pr \in [1..b -> ProximityRejectRows] :
          \E nl \in [1..c -> NucleusLabeledRows] :
              tables = Tables(mc, pr, nl)
    /\ settings \in Envs
    /\ reader = Unprobed /\ result = NoResult
    /\ NamesIdle /\ ParseIdle

NextRows == Probe \/ Build

SpecRows == InitRows /\ [][NextRows]_vars

\* rows that break one structural rule each
BoxCenterOutside == BoxOf(7, 1, 5)          \* center above z_max

FaultyRecords ==
    { Record("MergeContributors", MergeContributorRow(8, 0, 0, BoxInverted, 5)),
      Record("MergeContributors", MergeContributorRow(8, 0, 0, BoxCenterOutside, 5)),
      Record("MergeContributors", MergeContributorRow(5, 0, 0, BoxSeveral, 5)),
      Record("ProximityRejects", ProximityRejectRow(8, 0, 0, BoxSeveral, <<4, 4>>)),
      Record("ProximityRejects", ProximityRejectRow(8, 0, 0, BoxSeveral, <<>>)),
      Record("NucleiLabeled", NucleusLabeledRow(8, 0, 0, BoxSeveral, 1, <<3>>, 0, <<>>)),
      Record("NucleiLabeled", NucleusLabeledRow(8, 0, 0, BoxSeveral, 1, <<8, 3>>, 0, <<>>)) }

InsertAt(s, i, x) == SubSeq(s, 1, i) \o <<x>> \o SubSeq(s, i + 1, Len(s))

\* a folder with one file of each content type, one row of which may be faulty
InitFaulty ==
    /\ BoxIdle
    /\ dir = {MergeFileA, ProximityFile, NucleiFile}
    /\ \/ tables = ExampleTables
       \/ \E f \in FaultyRecords : \E i \in 0..Len(ExampleTables[f.file_type]) :
             tables = [ExampleTables EXCEPT ![f.file_type] = InsertAt(@, i, f.row)]
    /\ settings \in {DefaultEnv, Env(SetTo("1"), SetTo("True"), Unset)}
    /\ reader = Unprobed /\ result = NoResult
    /\ NamesIdle /\ ParseIdle

NextFaulty == Probe \/ Build

SpecFaulty == InitFaulty /\ [][NextFaulty]_vars

\* a probed folder, and reader calls on it and on other folders
InitFolders ==
    /\ BoxIdle
    /\ dir \in {{MergeFileA, ProximityFile, NucleiFile}, {MergeFileA, NucleiFile}}
    /\ tables = ExampleTables
    /\ settings \in Envs
    /\ reader = Unprobed /\ result = NoResult
    /\ NamesIdle /\ ParseIdle

NextFolders == Probe \/ Build \/ BuildElsewhere \/ ChangeSettings

SpecFolders == InitFolders /\ [][NextFolders]_vars

----------------------------------------------------------------------------
(* Properties of iter_z_slices_nonnegative (SpecBox) *)

Iterated == pcBox = "iterated"

\* the integer z of a yielded tuple, when its four points agree on it
SliceZ(s) == s.q1.z

\* C1: a constructed box yields max(0, floor(z_max) + 1) - max(0, floor(z_min))
\* tuples.
C1_SliceCount ==
    Iterated =>
        Len(slices) = Max(0, (box.z_max \div Scale) + 1) - Max(0, box.z_min \div Scale)

C1_Witness ==
    Iterated /\ box.z_min < 0 /\ box.z_max >= Scale /\ Len(slices) >= 2

\* the tuples are those of the integers lo..hi, one each, in ascending order
YieldsExactly(lo, hi) ==
    /\ Len(slices) = Max(0, hi - lo + 1)
    /\ \A i \in 1..Len(slices) :
          /\ slices[i].q1.z = (lo + i - 1) * Scale
          /\ slices[i].q2.z = slices[i].q1.z
          /\ slices[i].q3.z = slices[i].q1.z
          /\ slices[i].q4.z = slices[i].q1.z

\* C2 as claimed: one tuple for each integer z of
\* [max(0, floor(z_min)), max(0, floor(z_max))], ascending, also when z_max < 0.
C2_AsClaimed ==
    Iterated =>
        YieldsExactly(Max(0, box.z_min \div Scale), Max(0, box.z_max \div Scale))

\* C2 as amended: one tuple for each integer z of
\* [max(0, floor(z_min)), floor(z_max)], ascending and no other; the interval
\* is empty, and nothing is yielded, when z_max is negative.
C2_SlicesOfInterval ==
    Iterated =>
        /\ YieldsExactly(Max(0, box.z_min \div Scale), box.z_max \div Scale)
        /\ box.z_max < 0 => slices = <<>>

C2_Witness ==
    Iterated /\ box.z_max < 0 /\ slices = <<>>

CenterSlices == {i \in 1..Len(slices) : slices[i].is_center}

\* C3: zero or one tuple is flagged as the center slice; none exactly when
\* round(center.z) < 0 or round(center.z) > floor(z_max); the flagged tuple is
\* the one whose z is round(center.z).
C3_CenterSlice ==
    Iterated =>
        /\ Cardinality(CenterSlices) \in {0, 1}
        /\ Cardinality(CenterSlices) = 0 <=>
              \/ Round(box.center.z) < 0
              \/ Round(box.center.z) > box.z_max \div Scale
        /\ \A i \in 1..Len(slices) :
              slices[i].is_center <=> SliceZ(slices[i]) = Round(box.center.z) * Scale

C3_Witness ==
    /\ Iterated /\ Len(slices) >= 2 /\ CenterSlices = {}
    /\ Round(box.center.z) > box.z_max \div Scale

\* C4: nothing is yielded if and only if z_min < 0 and z_max < 0; a box with
\* z_min < 0 <= z_max yields the slice at z = 0.
C4_EmptyIffNegative ==
    Iterated =>
        /\ slices = <<>> <=> (box.z_min < 0 /\ box.z_max < 0)
        /\ (box.z_min < 0 /\ box.z_max >= 0) => (slices /= <<>> /\ SliceZ(slices[1]) = 0)

C4_Witness ==
    Iterated /\ box.z_min < 0 /\ box.z_max >= 0 /\ box.z_max < Scale /\ Len(slices) = 1

----------------------------------------------------------------------------
(* Properties of the reader (Spec, SpecRows), stated on the entries of the   *)
(* folder and on the rows of its data files                                  *)

\* the reader call returned layers
Returned == result.call = "build" /\ "layers" \in DOMAIN result.out

\* get_reader was given the folder, which has not changed since
Fresh == reader.path = "directory" /\ ~reader.stale

RoiVariants ==
    {"MergeContributorRoi", "ProximityRejectedRoi", "NonNuclearRoi", "SingletonRoi",
     "MergedRoi"}

ContentTypeOfVariant(v) ==
    IF v = "MergeContributorRoi" THEN "MergeContributors"
    ELSE IF v = "ProximityRejectedRoi" THEN "ProximityRejects"
    ELSE "NucleiLabeled"

SuffixChunkOf(kind) ==
    IF kind = "MergeContributors" THEN <<"merge", "contributors">>
    ELSE IF kind = "ProximityRejects" THEN <<"proximity", "rejected">>
    ELSE <<"with", "trace", "ids">>

\* a regular file named <prefix>_rois<...>.csv
IsRoisCsvFile(e) ==
    /\ e.is_file
    /\ Len(e.name) >= 2
    /\ e.name[Len(e.name)] = <<"csv">>
    /\ Len(e.name[1]) >= 2
    /\ e.name[1][Len(e.name[1])] = "rois"

\* a regular file named <prefix>_rois<...><suffix of the content type>
IsDataFileOf(e, kind) ==
    /\ IsRoisCsvFile(e)
    /\ Len(e.name) >= 3
    /\ e.name[Len(e.name) - 1] = SuffixChunkOf(kind)

DataFilesOf(kind) == {e \in dir : IsDataFileOf(e, kind)}

\* the plausible input files whose name matches no content type
UnclassifiableFiles ==
    {e \in dir : IsRoisCsvFile(e) /\ \A k \in KindNames : ~IsDataFileOf(e, k)}

\* the rows of the data files that become ROIs of the variant
RowsOfVariant(v) ==
    IF v = "MergeContributorRoi" THEN tables.MergeContributors
    ELSE IF v = "ProximityRejectedRoi" THEN tables.ProximityRejects
    ELSE IF v = "NonNuclearRoi"
    THEN SelectSeq(tables.NucleiLabeled, LAMBDA r : r.nucleusNumber = 0)
    ELSE IF v = "SingletonRoi"
    THEN SelectSeq(tables.NucleiLabeled,
                   LAMBDA r : r.nucleusNumber /= 0 /\ r.mergePartners = <<>>)
    ELSE SelectSeq(tables.NucleiLabeled,
                   LAMBDA r : r.nucleusNumber /= 0 /\ r.mergePartners /= <<>>)

\* the integers z of the slices of the box of a row, ascending
SliceZsOfRow(row) ==
    LET lo == Max(0, row.box.z_min \div Scale)
        hi == row.box.z_max \div Scale
    IN  [j \in 1..(hi - lo + 1) |-> lo + j - 1]

ExpectedPolygon(row, z) ==
    << <<row.timepoint, row.spotChannel, z * Scale, row.box.y_min, row.box.x_max>>,
       <<row.timepoint, row.spotChannel, z * Scale, row.box.y_min, row.box.x_min>>,
       <<row.timepoint, row.spotChannel, z * Scale, row.box.y_max, row.box.x_min>>,
       <<row.timepoint, row.spotChannel, z * Scale, row.box.y_max, row.box.x_max>> >>

ExpectedPolygons(rows) ==
    Flatten([i \in 1..Len(rows) |->
                [j \in 1..Len(SliceZsOfRow(rows[i])) |->
                    ExpectedPolygon(rows[i], SliceZsOfRow(rows[i])[j])]])

ExpectedTags(rows) ==
    Flatten([i \in 1..Len(rows) |->
                [j \in 1..Len(SliceZsOfRow(rows[i])) |->
                    IF SliceZsOfRow(rows[i])[j] = Round(rows[i].box.center.z)
                    THEN "rectangle" ELSE "ellipse"]])

\* C5: polygons of a layer: per ROI in row order, per z ascending, the four
\* points (y_min, x_max), (y_min, x_min), (y_max, x_min), (y_max, x_max) as
\* [timepoint, channel, z, y, x].
C5_Polygons ==
    Returned =>
        \A i \in 1..Len(result.out.layers) :
            LET layer == result.out.layers[i]
            IN  /\ layer.data = ExpectedPolygons(RowsOfVariant(layer.params.name))
                /\ \A j \in 1..Len(layer.data) :
                      Len(layer.data[j]) = 4 /\ \A k \in 1..4 : Len(layer.data[j][k]) = 5

C5_Witness ==
    /\ Returned
    /\ \E i \in 1..Len(result.out.layers) :
          LET data == result.out.layers[i].data
          IN  /\ Len(data) >= 4
              /\ data[1][1][1] /= data[Len(data)][1][1]
              /\ data[1][1][3] < data[2][1][3]

\* C6 as claimed: get_reader on a directory lacking a file of one of the three
\* content types returns null.
C6_AsClaimed ==
    (Fresh /\ \E k \in KindNames : DataFilesOf(k) = {}) => reader.returned = "null"

\* C6 as amended: get_reader on a directory lacking a file of one or more of
\* the content types (the empty directory too) returns a reader, unless two or
\* more files are of one content type or two or more plausible files are of none.
C6_MissingTypeStillRead ==
    ( /\ Fresh
      /\ \E k \in KindNames : DataFilesOf(k) = {}
      /\ \A k \in KindNames : Cardinality(DataFilesOf(k)) <= 1
      /\ Cardinality(UnclassifiableFiles) <= 1 )
    => reader.returned = "reader"

C6_Witness ==
    /\ Fresh /\ reader.returned = "reader"
    /\ DataFilesOf("NucleiLabeled") = {}
    /\ DataFilesOf("MergeContributors") /= {}
    /\ DataFilesOf("ProximityRejects") /= {}

\* C7: get_reader on a directory with two or more plausible files of the same
\* content type returns null.
C7_DuplicateTypeRejected ==
    (Fresh /\ \E k \in KindNames : Cardinality(DataFilesOf(k)) >= 2)
    => reader.returned = "null"

C7_Witness ==
    /\ Fresh /\ reader.returned = "null"
    /\ Cardinality(DataFilesOf("MergeContributors")) = 2
    /\ DataFilesOf("ProximityRejects") /= {} /\ DataFilesOf("NucleiLabeled") /= {}
    /\ UnclassifiableFiles = {}

\* C8: plausible files of no content type change neither what get_reader
\* returns nor the layers the reader builds.
C8_UnclassifiableIgnored ==
    /\ Fresh => reader.returned = GetReader("directory", dir \ UnclassifiableFiles)
    /\ Returned =>
          result.out =
              BuildLayers(SelectSeq(result.listing, LAMBDA e : e \notin UnclassifiableFiles),
                          tables, settings)

\* the ROI variants with a data file in the folder and at least one row
PopulatedVariants ==
    {v \in RoiVariants :
        DataFilesOf(ContentTypeOfVariant(v)) /= {} /\ RowsOfVariant(v) /= <<>>}

\* C9: the reader returns one layer per ROI variant with at least one ROI in
\* the data file of its content type, and no other layer; entries that are not
\* plausible input files count for nothing.
C9_LayerPerPopulatedVariant ==
    Returned =>
        /\ Len(result.out.layers) = Cardinality(PopulatedVariants)
        /\ {result.out.layers[i].params.name : i \in 1..Len(result.out.layers)}
              = PopulatedVariants

C9_Witness ==
    /\ Returned
    /\ {TsvFile, NoRoisFile, SubFolder} \cap dir /= {}
    /\ DataFilesOf("MergeContributors") /= {} /\ tables.MergeContributors = <<>>
    /\ Len(result.out.layers) = 2

\* C10: the shape tags of a layer are parallel to its polygons; a polygon is
\* tagged "rectangle" when its z is the nearest integer to the z of the center
\* of its ROI's box and "ellipse" otherwise; at most one "rectangle" per ROI.
C10_ShapeTags ==
    Returned =>
        \A i \in 1..Len(result.out.layers) :
            LET layer == result.out.layers[i]
                rows == RowsOfVariant(layer.params.name)
                tags == layer.params.shape_type
            IN  /\ Len(tags) = Len(layer.data)
                /\ tags = ExpectedTags(rows)
                /\ Cardinality({j \in 1..Len(tags) : tags[j] = "rectangle"}) <= Len(rows)

C10_Witness ==
    /\ Returned
    /\ \E i \in 1..Len(result.out.layers) :
          LET tags == result.out.layers[i].params.shape_type
          IN  /\ \E j \in 1..Len(tags) : tags[j] = "rectangle"
              /\ \E j \in 1..Len(tags) : tags[j] = "ellipse"

----------------------------------------------------------------------------
(* Properties of the constructors (SpecConstruct), stated on the arguments  *)
(* of the call                                                              *)

Constructed == pcBox \in {"built", "iterated", "raised"}
Failed == pcBox = "failed"
Called == Constructed \/ Failed

Coordinates == <<arguments.zc, arguments.yc, arguments.xc>>

\* the three coordinates are finite floats, so that the center is a Point3D
CenterIsPoint ==
    \A i \in 1..3 :
        /\ Coordinates[i].type \in {"float", "numpy.float64"}
        /\ Coordinates[i].value \notin {NaN, PosInf, NegInf}

\* lo <= hi as floats compare (False with a NaN), hi - lo >= 0 likewise (no
\* bound pair of the arguments is two infinities of one sign)
Leq(lo, hi) == lo /= NaN /\ hi /= NaN /\ lo <= hi
DiffNonnegative(hi, lo) == Leq(lo, hi)

AxisBounds ==
    << <<arguments.z_min, arguments.zc.value, arguments.z_max>>,
       <<arguments.y_min, arguments.yc.value, arguments.y_max>>,
       <<arguments.x_min, arguments.xc.value, arguments.x_max>> >>

AllOrdered == \A i \in 1..3 : Leq(AxisBounds[i][1], AxisBounds[i][3])
CenterWithin ==
    \A i \in 1..3 : Leq(AxisBounds[i][1], AxisBounds[i][2])
                       /\ Leq(AxisBounds[i][2], AxisBounds[i][3])

\* C11: with a valid center point, construction of a BoundingBox3D succeeds if
\* and only if min <= max on all three axes and the center lies within
\* [min, max] on all three axes; every constructed box has max - min >= 0,
\* center - min >= 0 and max - center >= 0 on every axis.
C11_ConstructionIffInvariant ==
    (Called /\ CenterIsPoint) =>
        /\ Constructed <=> (AllOrdered /\ CenterWithin)
        /\ Constructed =>
              /\ DiffNonnegative(box.z_max, box.z_min)
              /\ DiffNonnegative(box.y_max, box.y_min)
              /\ DiffNonnegative(box.x_max, box.x_min)
              /\ DiffNonnegative(box.center.z, box.z_min)
              /\ DiffNonnegative(box.z_max, box.center.z)
              /\ DiffNonnegative(box.center.y, box.y_min)
              /\ DiffNonnegative(box.y_max, box.center.y)
              /\ DiffNonnegative(box.center.x, box.x_min)
              /\ DiffNonnegative(box.x_max, box.center.x)

\* the same over the calls whose six bounds are all numbers (none is a NaN)
NoNanBound ==
    NaN \notin {arguments.z_min, arguments.z_max, arguments.y_min,
                arguments.y_max, arguments.x_min, arguments.x_max}

C11_HoldsWithoutNan ==
    (Called /\ CenterIsPoint /\ NoNanBound) =>
        (Constructed <=> (AllOrdered /\ CenterWithin))

\* some axis has min > max
SomeInverted ==
    \E i \in 1..3 :
        /\ AxisBounds[i][1] /= NaN /\ AxisBounds[i][3] /= NaN
        /\ AxisBounds[i][1] > AxisBounds[i][3]

\* C12: with min > max on at least one axis, construction fails with the
\* ordering message whatever the center point is, also when it is outside
\* the bounds; the center-containment message is reported only when no axis
\* has min > max.
C12_OrderingBeforeContainment ==
    (Called /\ CenterIsPoint) =>
        /\ SomeInverted =>
              (Failed /\ box.error = "ValueError"
                /\ box.message = "For each dimension, min must be no more than max!")
        /\ (Failed /\ box.message =
                "For each dimension, center coordinate must be within min/max bounds!")
              => ~SomeInverted

C12_Witness ==
    /\ Failed /\ CenterIsPoint
    /\ arguments.y_min > arguments.y_max
    /\ arguments.z_min <= arguments.z_max /\ arguments.z_max < arguments.zc.value
    /\ box.message = "For each dimension, min must be no more than max!"

SomeNotFloat == \E i \in 1..3 : Coordinates[i].type \notin {"float", "numpy.float64"}
SomeNan == \E i \in 1..3 : Coordinates[i].value = NaN
SomeInfinite == \E i \in 1..3 : Coordinates[i].value \in {PosInf, NegInf}

\* C13: Point3D construction reports the first failing check in the order
\* type, NaN, infinite: a non-float coordinate (an integer too) gives a
\* TypeError; otherwise a NaN gives the ValueError "Cannot use a null numeric
\* as a point coordinate!"; otherwise an infinity gives the ValueError "Cannot
\* use an infinite value as a point coordinate!"; otherwise the point is
\* constructed.
C13_PointChecksInOrder ==
    Called =>
        IF SomeNotFloat THEN Failed /\ box.error = "TypeError"
        ELSE IF SomeNan
        THEN /\ Failed /\ box.error = "ValueError"
             /\ box.message = "Cannot use a null numeric as a point coordinate!"
        ELSE IF SomeInfinite
        THEN /\ Failed /\ box.error = "ValueError"
             /\ box.message = "Cannot use an infinite value as a point coordinate!"
        ELSE \/ /\ Constructed
                /\ box.center = [z |-> arguments.zc.value, y |-> arguments.yc.value,
                                 x |-> arguments.xc.value]
             \/ /\ Failed
                /\ box.message \in
                      {"For each dimension, min must be no more than max!",
                       "For each dimension, center coordinate must be within min/max bounds!"}

C13_Witness ==
    /\ Failed
    /\ arguments.zc = [type |-> "float", value |-> PosInf]
    /\ arguments.yc = [type |-> "float", value |-> NaN]
    /\ arguments.xc.type = "float"
    /\ box.message = "Cannot use a null numeric as a point coordinate!"

----------------------------------------------------------------------------
(* Properties of the file name classifiers (SpecNames), stated on the       *)
(* chunks of the name                                                       *)

WasClassified == inferred /= NotInferred

\* the name is '<prefix>_rois' followed by '.'-separated segments
HasRoisStem == Len(filename[1]) >= 2 /\ filename[1][Len(filename[1])] = "rois"

\* what follows the stem: the segments after the first dot
Segments == [i \in 1..(Len(filename) - 1) |-> filename[i + 1]]

ProximitySpellings ==
    { <<"proximity", "filtered">>, <<"proximity", "filtration">>,
      <<"ProximityFiltration">> }
NucleiSpellings ==
    { <<"nuclei", "filtered">>, <<"nuclei", "filtration">>, <<"NucleiFiltration">> }

\* C14 as claimed: a status exactly for '<prefix>_rois' followed by '.csv',
\* '.proximity_filtered.csv' or '.proximity_filtered.nuclei_filtered.csv', and
\* None for every other name, any other spelling of a step included.
C14_AsClaimed ==
    WasClassified =>
        inferred.status =
            IF ~HasRoisStem THEN "None"
            ELSE IF Segments = << <<"csv">> >> THEN "Unfiltered"
            ELSE IF Segments = << <<"proximity", "filtered">>, <<"csv">> >>
            THEN "ProximityFiltered"
            ELSE IF Segments = << <<"proximity", "filtered">>, <<"nuclei", "filtered">>,
                                  <<"csv">> >>
            THEN "ProximityAndNucleiFiltered"
            ELSE "None"

\* C14: ProcessingStatus.from_filename returns a status exactly when the name
\* is '<prefix>_rois', then no step (Unfiltered), the proximity step
\* (ProximityFiltered) or the proximity step and the nuclei step
\* (ProximityAndNucleiFiltered), then '.csv', a step being spelled as its
\* filename extension, its value or its member name; every other name gives
\* None.
C14_StatusOfSteps ==
    WasClassified =>
        inferred.status =
            IF ~HasRoisStem THEN "None"
            ELSE IF Segments = << <<"csv">> >> THEN "Unfiltered"
            ELSE IF /\ Len(Segments) = 2
                    /\ Segments[1] \in ProximitySpellings
                    /\ Segments[2] = <<"csv">>
            THEN "ProximityFiltered"
            ELSE IF /\ Len(Segments) = 3
                    /\ Segments[1] \in ProximitySpellings
                    /\ Segments[2] \in NucleiSpellings
                    /\ Segments[3] = <<"csv">>
            THEN "ProximityAndNucleiFiltered"
            ELSE "None"

C14_Witness ==
    /\ WasClassified
    /\ filename = << <<"P0001", "rois">>, <<"proximity", "filtration">>,
                     <<"NucleiFiltration">>, <<"csv">> >>
    /\ inferred.status = "ProximityAndNucleiFiltered"

\* the content type whose suffix is the chunk, if there is one
ContentTypeOfChunk(chunk) ==
    IF chunk = <<"merge", "contributors">> THEN "MergeContributors"
    ELSE IF chunk = <<"proximity", "rejected">> THEN "ProximityRejects"
    ELSE IF chunk = <<"with", "trace", "ids">> THEN "NucleiLabeled"
    ELSE "None"

\* C15: InputFileContentType.from_filename returns a content type exactly when
\* the name is '<prefix>_rois' directly followed by '.merge_contributors.csv',
\* '.proximity_rejected.csv' or '.with_trace_ids.csv'; every other name (no
\* '_rois' stem, '.CSV', bare '.csv', segments between '_rois' and the suffix)
\* gives None; no name matches more than one content type.
C15_ContentTypeOfSuffix ==
    WasClassified =>
        /\ inferred.content_type =
              IF HasRoisStem /\ Len(Segments) = 2 /\ Segments[2] = <<"csv">>
              THEN ContentTypeOfChunk(Segments[1])
              ELSE "None"
        /\ Cardinality(MemberMatches(filename)) <= 1

\* C16: classification is total and never raises: for every name, the empty
\* string, a name without a dot and a name with unknown middle segments
\* included, both from_filename classifiers return a member of their enum or
\* None.
C16_ClassificationTotal ==
    /\ ~WasClassified => ENABLED Classify
    /\ WasClassified =>
          /\ inferred.status \in
                {"Unfiltered", "ProximityFiltered", "ProximityAndNucleiFiltered", "None"}
          /\ inferred.content_type \in
                {"MergeContributors", "ProximityRejects", "NucleiLabeled", "None"}

C16_Witness ==
    /\ WasClassified
    /\ filename = << <<"">> >>
    /\ inferred = [status |-> "None", content_type |-> "None"]

----------------------------------------------------------------------------
(* Properties of the probe and of the row parsers *)

WasParsed == parsedRoi /= NotParsed
ParseFailed == WasParsed /\ "error" \in DOMAIN parsedRoi
GaveRoi == WasParsed /\ "error" \notin DOMAIN parsedRoi

\* the ids written in a cell
IdsOfCell(cell) == {cell[i] : i \in 1..Len(cell)}
HasRepeatedId(cell) == \E i, j \in 1..Len(cell) : i /= j /\ cell[i] = cell[j]

\* the box columns of the row of the record are those of a box
RowBoxIsValid ==
    LET b == record.row.box
    IN  /\ b.z_min <= b.center.z /\ b.center.z <= b.z_max
        /\ b.y_min <= b.center.y /\ b.center.y <= b.y_max
        /\ b.x_min <= b.center.x /\ b.center.x <= b.x_max

\* C18: a row of a nucleus-labeled file that parses becomes one ROI, chosen by
\* two fields only: nucleusNumber = 0 gives a NonNuclearRoi, with or without
\* mergePartners; nucleusNumber /= 0 without mergePartners gives a SingletonRoi;
\* nucleusNumber /= 0 with mergePartners gives a MergedRoi whose id is the
\* index of the row and whose contributors are the ids of mergePartners.  A
\* row of a merge-contributors file becomes a MergeContributorRoi, a row of a
\* proximity-rejects file a ProximityRejectedRoi.
C18_VariantOfRow ==
    /\ GaveRoi =>
          IF record.file_type = "MergeContributors"
          THEN parsedRoi.typename = "MergeContributorRoi"
          ELSE IF record.file_type = "ProximityRejects"
          THEN parsedRoi.typename = "ProximityRejectedRoi"
          ELSE IF record.row.nucleusNumber = 0
          THEN parsedRoi.typename = "NonNuclearRoi"
          ELSE IF record.row.mergePartners = <<>>
          THEN parsedRoi.typename = "SingletonRoi" /\ parsedRoi.id = record.row.index
          ELSE /\ parsedRoi.typename = "MergedRoi"
               /\ parsedRoi.id = record.row.index
               /\ parsedRoi.contributors = IdsOfCell(record.row.mergePartners)
    /\ (WasParsed /\ record.file_type = "NucleiLabeled" /\ RowBoxIsValid
          /\ \/ record.row.nucleusNumber = 0
             \/ record.row.nucleusNumber > 0 /\ record.row.mergePartners = <<>>)
          => GaveRoi

C18_Witness ==
    /\ GaveRoi
    /\ record.file_type = "NucleiLabeled"
    /\ record.row.nucleusNumber = 0
    /\ Len(record.row.mergePartners) = 2
    /\ parsedRoi.typename = "NonNuclearRoi"

\* C19: a proximity-rejects row whose tooCloseRois cell repeats an id fails
\* with a ValueError; a cell of pairwise distinct integers, a single one
\* included, parses to exactly that set of ids.
C19_NeighborsOfCell ==
    (WasParsed /\ record.file_type = "ProximityRejects") =>
        /\ HasRepeatedId(record.row.tooCloseRois) =>
              (ParseFailed /\ parsedRoi.error = "ValueError")
        /\ (~HasRepeatedId(record.row.tooCloseRois)
               /\ record.row.tooCloseRois /= <<>> /\ RowBoxIsValid) =>
              (GaveRoi /\ parsedRoi.neighbors = IdsOfCell(record.row.tooCloseRois))

C19_Witness ==
    /\ ParseFailed
    /\ record.file_type = "ProximityRejects"
    /\ record.row.tooCloseRois = <<2, 2>>
    /\ RowBoxIsValid
    /\ parsedRoi.error = "ValueError"

\* C20: a nucleus-labeled row with a duplicated id in its mergePartners or in
\* its tracePartners cell is rejected: its parse fails, the duplicates are not
\* collapsed into a set.
C20_DuplicatePartnersRejected ==
    (WasParsed /\ record.file_type = "NucleiLabeled"
       /\ \/ HasRepeatedId(record.row.mergePartners)
          \/ HasRepeatedId(record.row.tracePartners))
        => ParseFailed

----------------------------------------------------------------------------
(* Properties of the ROIs a build holds *)

\* the invariant of the variant of a ROI
RoiInvariant(roi) ==
    IF roi.typename = "MergeContributorRoi" THEN roi.id /= roi.merge_index
    ELSE IF roi.typename = "ProximityRejectedRoi" THEN roi.neighbors /= {}
    ELSE IF roi.typename = "MergedRoi"
    THEN /\ Cardinality(roi.contributors) >= 2
         /\ roi.id \notin roi.contributors
         /\ roi.nucleus_number.get >= 1
    ELSE IF roi.typename = "SingletonRoi" THEN roi.nucleus_number.get >= 1
    ELSE TRUE

\* the row of the record asks for a ROI that would break its invariant
RowBreaksInvariant ==
    LET row == record.row IN
    IF record.file_type = "MergeContributors" THEN row.index = row.mergeOutput
    ELSE IF record.file_type = "ProximityRejects" THEN row.tooCloseRois = <<>>
    ELSE \/ row.nucleusNumber < 0
         \/ /\ row.nucleusNumber > 0
            /\ row.mergePartners /= <<>>
            /\ \/ Cardinality(IdsOfCell(row.mergePartners)) < 2
               \/ row.index \in IdsOfCell(row.mergePartners)

\* C21: every ROI the parse of a row gives satisfies the invariant of its
\* variant (a MergeContributorRoi has id /= merge_index, a ProximityRejectedRoi
\* a non-empty neighbor set, a MergedRoi at least 2 contributors without its
\* own id, Singleton and Merged ROIs a nucleus number >= 1), and a row that
\* asks for a ROI breaking it fails with a ValueError.
C21_RoiInvariants ==
    /\ GaveRoi => RoiInvariant(parsedRoi)
    /\ (WasParsed /\ RowBreaksInvariant) =>
          (ParseFailed /\ parsedRoi.error = "ValueError")

C21_Witness ==
    /\ ParseFailed
    /\ record.file_type = "NucleiLabeled"
    /\ record.row.nucleusNumber = 1
    /\ record.row.index = 2
    /\ record.row.mergePartners = <<2, 3>>
    /\ RowBoxIsValid
    /\ parsedRoi.error = "ValueError"

----------------------------------------------------------------------------
(* Properties of a build over data files with faulty rows (SpecFaulty) *)

\* the reader call raised
Raised == result.call = "build" /\ "error" \in DOMAIN result.out

BoxRuleBroken(b) ==
    \/ b.z_min > b.z_max \/ b.y_min > b.y_max \/ b.x_min > b.x_max
    \/ b.center.z < b.z_min \/ b.center.z > b.z_max
    \/ b.center.y < b.y_min \/ b.center.y > b.y_max
    \/ b.center.x < b.x_min \/ b.center.x > b.x_max

\* the row of a file of the content type breaks a structural rule
RowBreaksRule(file_type, row) ==
    \/ BoxRuleBroken(row.box)
    \/ file_type = "MergeContributors" /\ row.index = row.mergeOutput
    \/ /\ file_type = "ProximityRejects"
       /\ (row.tooCloseRois = <<>> \/ HasRepeatedId(row.tooCloseRois))
    \/ /\ file_type = "NucleiLabeled"
       /\ row.nucleusNumber /= 0 /\ row.mergePartners /= <<>>
       /\ \/ Cardinality(IdsOfCell(row.mergePartners)) < 2
          \/ row.index \in IdsOfCell(row.mergePartners)

SomeRowBreaksRule ==
    \E k \in KindNames : \E i \in 1..Len(tables[k]) : RowBreaksRule(k, tables[k][i])

\* C22: the build is all-or-nothing: when a row of a classified file breaks a
\* structural rule (inverted box bounds, center outside the bounds, repeated
\* neighbor ids, no neighbor, an id that refers to itself, fewer than 2
\* contributors) the reader call raises and returns no layers, wherever the
\* file comes in the listing; a call that returns layers has read no such row.
C22_AllOrNothing ==
    result.call = "build" =>
        /\ SomeRowBreaksRule => (Raised /\ "layers" \notin DOMAIN result.out)
        /\ Returned => ~SomeRowBreaksRule

C22_Witness ==
    /\ Raised
    /\ FromFilepath(result.listing[Len(result.listing)]) = "NucleiLabeled"
    /\ Len(tables.NucleiLabeled) = 4
    /\ RowBreaksRule("NucleiLabeled", tables.NucleiLabeled[4])
    /\ ~BoxRuleBroken(tables.NucleiLabeled[4].box)
    /\ \A i \in 1..Len(tables.MergeContributors) :
          ~RowBreaksRule("MergeContributors", tables.MergeContributors[i])
    /\ result.out.error = "ValueError"

----------------------------------------------------------------------------
(* Properties of a build over data files without rows (SpecRows) *)

\* the data files whose table has no row: pd.read_csv raises EmptyDataError,
\* or gives a frame without rows
EmptyKinds == {k \in KindNames : tables[k] = <<>>}

\* the listing without the files of the content types
WithoutKinds(listing, kinds) ==
    SelectSeq(listing, LAMBDA e : ~(IsPlausibleInputFile(e) /\ FromFilepath(e) \in kinds))

LayerNames == {result.out.layers[i].params.name : i \in 1..Len(result.out.layers)}

\* C23: a data file without rows, of any of the three content types, is not an
\* error: the reader call does what it does on the folder without the file (the
\* same layers, or the same error of a row of another file), it returns when
\* no row breaks a rule, and no layer is of a ROI variant of the empty file.
C23_EmptyFileIsNoError ==
    result.call = "build" =>
        /\ result.out = BuildLayers(WithoutKinds(result.listing, EmptyKinds),
                                    tables, settings)
        /\ ~SomeRowBreaksRule => Returned
        /\ Returned =>
              \A v \in LayerNames : ContentTypeOfVariant(v) \notin EmptyKinds

C23_Witness ==
    /\ Returned
    /\ EmptyKinds = {"MergeContributors"}
    /\ FromFilepath(result.listing[2]) = "MergeContributors"
    /\ Len(result.out.layers) = 2
    /\ LayerNames = {"ProximityRejectedRoi", "SingletonRoi"}

----------------------------------------------------------------------------
(* Properties of the order of the layers (Spec) *)

LayerName(i) == result.out.layers[i].params.name

\* the place in the listing of the file of the content type
PlaceOfKind(k) ==
    CHOOSE i \in 1..Len(result.listing) :
        IsPlausibleInputFile(result.listing[i]) /\ FromFilepath(result.listing[i]) = k

\* the variant of the ROI of a row of the nucleus-labeled file
VariantOfNucleusRow(row) ==
    IF row.nucleusNumber = 0 THEN "NonNuclearRoi"
    ELSE IF row.mergePartners = <<>> THEN "SingletonRoi"
    ELSE "MergedRoi"

\* the first row of the nucleus-labeled file that gives a ROI of the variant
FirstRowOfVariant(v) ==
    LET at == {i \in 1..Len(tables.NucleiLabeled) :
                  VariantOfNucleusRow(tables.NucleiLabeled[i]) = v}
    IN  CHOOSE i \in at : \A j \in at : i <= j

\* C24: the layers come in the order in which their buckets were first seen:
\* layers of different files in the order of the files in the listing of the
\* folder, the layers of the nucleus-labeled file in the order in which each
\* ROI variant first occurs among its rows; the layers of a file are contiguous.
C24_LayerOrder ==
    Returned =>
        \A i, j \in 1..Len(result.out.layers) :
            i < j =>
                LET ki == ContentTypeOfVariant(LayerName(i))
                    kj == ContentTypeOfVariant(LayerName(j))
                IN  /\ PlaceOfKind(ki) <= PlaceOfKind(kj)
                    /\ ki = kj =>
                          /\ ki = "NucleiLabeled"
                          /\ FirstRowOfVariant(LayerName(i)) < FirstRowOfVariant(LayerName(j))

C24_Witness ==
    /\ Returned
    /\ Len(result.out.layers) = 5
    /\ PlaceOfKind("NucleiLabeled") < PlaceOfKind("ProximityRejects")
    /\ PlaceOfKind("ProximityRejects") < PlaceOfKind("MergeContributors")
    /\ [i \in 1..5 |-> LayerName(i)] =
          <<"SingletonRoi", "NonNuclearRoi", "MergedRoi", "ProximityRejectedRoi",
            "MergeContributorRoi">>

----------------------------------------------------------------------------
(* Properties of the annotation features of the layers (SpecRows) *)

\* the rows of a table, each as many times as its box has slices
RowOfSlice(rows) ==
    Flatten([i \in 1..Len(rows) |-> [j \in 1..Len(SliceZsOfRow(rows[i])) |-> rows[i]]])

FeatureKeys(layer) ==
    IF "features" \in DOMAIN layer.params THEN DOMAIN layer.params.features ELSE {}

\* an environment variable of a toggle holds one of the spellings of true
ToggleIsOn(var) == var.set /\ var.value \in {"True", "TRUE", "T", "1"}

\* the integer configured as the maximum number of partners to display
ConfiguredMaximum ==
    IF settings.LOOPTRACE__MAX_PROXIMITY_PARTNERS_TO_DISPLAY.set
    THEN settings.LOOPTRACE__MAX_PROXIMITY_PARTNERS_TO_DISPLAY.value
    ELSE 5

----------------------------------------------------------------------------
(* Properties of the probe and the build together (Spec) *)

\* get_reader returned a reader and the entries of the folder are those it saw
ProbedUnchanged == reader.returned = "reader" /\ ~reader.stale

\* the build raised the error of a programming-invariant violation
RaisedInvariantError ==
    Raised /\ result.out.error \in {"KeyError", "RuntimeError"}

\* C26: a reader call on the folder as get_reader saw it raises neither the
\* KeyError of a second file of a content type nor the RuntimeError of an
\* unexpected file type, each content type having at most one file; a reader
\* call on a folder with two files of one content type, the second added
\* after the probe, raises the KeyError and returns no layers.
C26_DuplicateKindOnlyWhenStale ==
    result.call = "build" =>
        /\ ProbedUnchanged =>
              /\ ~RaisedInvariantError
              /\ \A k \in KindNames : Cardinality(DataFilesOf(k)) <= 1
        /\ (\E k \in KindNames : Cardinality(DataFilesOf(k)) >= 2) =>
              (Raised /\ result.out.error = "KeyError")

C26_Witness ==
    /\ Raised
    /\ reader.returned = "reader" /\ reader.stale
    /\ result.out.error = "KeyError"
    /\ DataFilesOf("MergeContributors") = {MergeFileA, MergeFileB}
    /\ DataFilesOf("NucleiLabeled") /= {}

----------------------------------------------------------------------------
(* Properties of reader calls on several folders (SpecFolders) *)

\* the folder the reader call was made on
FolderOfResult ==
    IF "folder" \in DOMAIN result THEN result.folder ELSE FolderOf(dir, tables)

----------------------------------------------------------------------------
(* Properties of the parallel lists of a layer (SpecRows) *)

RECURSIVE SumOfSliceCounts(_)
SumOfSliceCounts(rows) ==
    IF rows = <<>> THEN 0
    ELSE Len(SliceZsOfRow(Head(rows))) + SumOfSliceCounts(Tail(rows))

\* the entry of a feature list is that of the ROI of the row
FeatureIsOfRow(key, entry, row) ==
    IF key = "mergeId"
    THEN entry = (IF "mergeOutput" \in DOMAIN row THEN row.mergeOutput ELSE row.index)
    ELSE IF key = "traceId" THEN entry = row.traceId
    ELSE IF key = "roiId" THEN entry = row.index
    ELSE entry.id = row.index

\* C28: in every layer the polygons, the shape tags and every feature list
\* have one length, the sum of the slice counts of the ROIs of the layer, and
\* the entries at one index are of one ROI; a bucket of ROIs without a slice
\* at z >= 0 gives a layer of empty lists.
C28_ParallelLists ==
    Returned =>
        /\ \A i \in 1..Len(result.out.layers) :
              LET layer == result.out.layers[i]
                  rows == RowsOfVariant(layer.params.name)
                  per == RowOfSlice(rows)
                  n == SumOfSliceCounts(rows)
              IN  /\ Len(per) = n
                  /\ Len(layer.data) = n
                  /\ Len(layer.params.shape_type) = n
                  /\ \A k \in 1..n :
                        /\ layer.data[k][1][1] = per[k].timepoint
                        /\ layer.data[k][1][2] = per[k].spotChannel
                        /\ layer.data[k][1][4] = per[k].box.y_min
                  /\ \A key \in FeatureKeys(layer) :
                        /\ Len(layer.params.features[key]) = n
                        /\ \A k \in 1..n :
                              FeatureIsOfRow(key, layer.params.features[key][k], per[k])
        /\ \A v \in RoiVariants :
              (RowsOfVariant(v) /= <<>> /\ SumOfSliceCounts(RowsOfVariant(v)) = 0) =>
                  \E i \in 1..Len(result.out.layers) :
                      LayerName(i) = v /\ result.out.layers[i].data = <<>>

C28_Witness ==
    /\ Returned
    /\ \E i \in 1..Len(result.out.layers) :
          /\ LayerName(i) = "ProximityRejectedRoi"
          /\ result.out.layers[i].data = <<>>
          /\ result.out.layers[i].params.shape_type = <<>>
          /\ FeatureKeys(result.out.layers[i]) = {"proximityAnnotation"}
          /\ result.out.layers[i].params.features.proximityAnnotation = <<>>
    /\ \E i \in 1..Len(result.out.layers) :
          /\ LayerName(i) = "SingletonRoi"
          /\ Len(result.out.layers[i].params.features.traceId) >= 1

----------------------------------------------------------------------------
(* Properties of the expansion of a constructed box (SpecConstruct) *)

\* the expansion of the constructed box raised
ExpansionRaised == pcBox = "raised"

\* C29: every BoundingBox3D that passes construction can be expanded:
\* iter_z_slices_nonnegative ends without raising on every constructed box.
C29_ExpansionNeverRaises == ~ExpansionRaised

\* the six bounds of the constructed box are finite numbers
FiniteBounds ==
    \A v \in {box.z_min, box.z_max, box.y_min, box.y_max, box.x_min, box.x_max} :
        ~IsNan(v) /\ ~IsInf(v)

\* the expansion raises on no box whose six bounds are finite
C29_HoldsForFiniteBounds ==
    (pcBox \in {"iterated", "raised"} /\ FiniteBounds) => ~ExpansionRaised

----------------------------------------------------------------------------
(* Properties of the neighbor summary of a proximity-rejected ROI (SpecRows) *)

\* the text lists the smallest ids of N in ascending order, as many as the
\* limit L allows, then "+k" for the k ids left out, if any
SummaryAsClaimed(text, N, L) ==
    LET listed == SelectSeq(text, LAMBDA item : "id" \in DOMAIN item)
        ids == {listed[i].id : i \in 1..Len(listed)}
        k == Cardinality(N) - Len(listed)
    IN  /\ Len(listed) = Min(L, Cardinality(N))
        /\ \A i, j \in 1..Len(listed) : i < j => listed[i].id < listed[j].id
        /\ ids \subseteq N
        /\ \A x \in N \ ids : \A y \in ids : y < x
        /\ text = listed \o (IF k > 0 THEN << [plus |-> k] >> ELSE <<>>)

\* every annotation of the layer of the proximity-rejected ROIs is as claimed
AnnotationsAsClaimed ==
    \A i \in 1..Len(result.out.layers) :
        LET layer == result.out.layers[i]
            per == RowOfSlice(RowsOfVariant("ProximityRejectedRoi"))
        IN  (LayerName(i) = "ProximityRejectedRoi"
               /\ FeatureKeys(layer) = {"proximityAnnotation"}) =>
                \A k \in 1..Len(per) :
                    LET entry == layer.params.features.proximityAnnotation[k]
                    IN  /\ entry.id = per[k].index
                        /\ SummaryAsClaimed(entry.text, IdsOfCell(per[k].tooCloseRois),
                                            ConfiguredMaximum)

\* C30: for a display limit L, any non-zero integer, a negative one included,
\* the neighbor summary of a ProximityRejectedRoi with neighbor set N lists
\* the min(L, |N|) smallest ids of N in ascending order, then "+k" with
\* k = |N| - (number listed) exactly when k > 0, and the annotation of each
\* polygon is the id of its ROI with the summary.
C30_NeighborSummary == Returned => AnnotationsAsClaimed

\* the same for the limits that are positive
C30_HoldsForPositiveLimit ==
    (Returned /\ ConfiguredMaximum > 0) => AnnotationsAsClaimed

====
